---- MODULE Spec2Model ----
(***************************************************************************)
(* Verification model of the TCP-framed transmission core of JRTPLIB:      *)
(*   - RTPTCPTransmitter::SocketData, the RFC 4571 frame reassembler       *)
(*     (src/src/rtptcptransmitter.h; its method bodies live in             *)
(*     rtptcptransmitter.cpp, which is not part of src/, and are taken     *)
(*     from spec.md section 4.4),                                          *)
(*   - the receive path of RTPTCPTransmitter: Poll, WaitForIncomingData    *)
(*     and AbortWait, likewise taken from spec.md sections 4.5 and 5,      *)
(*   - RTPAbortDescriptors (src/src/rtpabortdescriptors.cpp),              *)
(*   - RTPTime / RTPNTPTime (src/src/rtptimeutilities.h).                  *)
(* Each component has its own specification over its own variables; the    *)
(* variables of the other components are held at their initial values.     *)
(***************************************************************************)
EXTENDS Integers, Sequences, FiniteSets, TLC

(***************************************************************************)
(* Bounds of the model.                                                    *)
(***************************************************************************)
\* longest byte stream a peer sends on one socket
MaxStream == 5
\* largest byte value on the wire (bytes are 0..MaxByte)
MaxByte == 2
\* largest maxpacksize given to Create (m_maxPackSize is 1..MaxPackSize)
MaxPackSize == 2

\* destination sockets of the transmitter
NSocks == 1
\* the microseconds of the times converted to NTP form are 0..MaxUsec
MaxUsec == 24
\* the monotonic clock reads 0..MaxMono ticks
MaxMono == 3
\* the realtime clock reads ClockBase..ClockBase + MaxClock ticks
MaxClock == 3

\* RTPTime::Wait: whole seconds and 1/1024 second steps of a delay, signals
\* during one Wait, and nanoseconds a sleep may overrun
MaxSec == 1
MaxFrac == 3
MaxIntr == 2
MaxOver == 1
\* destinations of the transmitter whose peers may fail
NDests == 2
\* RTPKeyHashTable: buckets (hashsize), keys, and HashElements the memory
\* has room for
HashSize == 2
MaxKey == 4
MaxNodes == 3
\* bytes the abort channel buffers before a write blocks
PipeCap == 2
\* threads that use one abort channel at the same time
NThreads == 2
\* size of the process's handle table
MaxFd == 4

ByteVals == 0..MaxByte

(***************************************************************************)
(* State of the reassembler specification: one destination socket.         *)
(***************************************************************************)
VARIABLES
  orig,        \* the whole byte stream the peer sends
  stream,      \* its part not yet delivered by TCP
  sockbuf,     \* bytes in the socket's receive buffer
  peerClosed,  \* the peer has shut the connection down
  sdata,       \* the destination's SocketData
  live,        \* the destination is in m_destSockets
  rpc,         \* "idle", or "called": ProcessAvailableBytes has returned
  complete,    \* ProcessAvailableBytes' complete output
  rstatus,     \* its status
  emitted,     \* payloads appended to the inbound queue, in order
  consumed,    \* every byte recv has handed out, in order
  splitSeen,   \* some call returned in the middle of a frame
  m_maxPackSize, \* the maxpacksize given to Create
  lastReset    \* the last PollSocket step harvested a frame and called Reset

reasmVars == <<orig, stream, sockbuf, peerClosed, sdata, live, rpc, complete,
               rstatus, emitted, consumed, splitSeen, m_maxPackSize, lastReset>>

(***************************************************************************)
(* State of the abort channel specifications.                              *)
(***************************************************************************)
VARIABLES
  variant,     \* the build: "unix" (pipe) or "winsock" (socket pair)
  chan,        \* the RTPAbortDescriptors object: m_init, m_descriptors
  openFds,     \* the handles open in the process
  pipe,        \* unread bytes buffered on the channel
  badClose,    \* some close() was given a handle that was not open
  athreads,    \* the threads using the channel
  apc,         \* per thread: "idle", "write", "select", "read"
  clr,         \* per thread in ClearAbortSignal: bytes at the call, bytes read
  last,        \* the operation that returned last (or is in progress)
  prev         \* the one that returned before it

abortVars == <<variant, chan, openFds, pipe, badClose, athreads, apc, clr, last,
               prev>>

(***************************************************************************)
(* State of the transmitter's receive path (Poll / WaitForIncomingData /   *)
(* AbortWait) on a thread-safe transmitter with an owned abort channel,    *)
(* which is chan and pipe above.                                           *)
(***************************************************************************)
VARIABLES
  wpc,              \* per thread: "idle", "lockwait", "multiwait", "woken"
  waitMutex,        \* m_waitMutex: 0, or the thread that holds it
  m_waitingForData, \* the flag AbortWait looks at
  m_destSockets,    \* socket -> SocketData, the destination set
  wstream,          \* per socket: bytes the peer has yet to send
  wbuf,             \* per socket: bytes in its receive buffer
  wconsumed,        \* per socket: bytes read from it so far
  m_rawpacketlist,  \* the inbound queue: <<socket, payload>> in order
  m_tmpSocks,       \* per thread: the destinations snapshot of its wait
  m_tmpFlags,       \* per thread: the readiness bitmap of its wait
  recvErrors,       \* sockets OnReceiveError was called for
  abortedWait,      \* AbortWait signalled while a thread was in MultiWait
  lastDone          \* what the last wake cycle did

waitVars == <<wpc, waitMutex, m_waitingForData, m_destSockets, wstream, wbuf,
              wconsumed, m_rawpacketlist, m_tmpSocks, m_tmpFlags,
              recvErrors, abortedWait, lastDone>>

(***************************************************************************)
(* State of a conversion of an RTPTime to NTP form and back.               *)
(***************************************************************************)
VARIABLES
  ntpc,     \* "time", "ntp", "back": how far the conversion has got
  tin,      \* the seconds and microseconds the time was made from
  m_t,      \* RTPTime::m_t of the time converted
  ntptime,  \* the RTPNTPTime GetNTPTime returned
  tback     \* RTPTime::m_t of RTPTime(ntptime)

ntpVars == <<ntpc, tin, m_t, ntptime, tback>>

(***************************************************************************)
(* State of RTPTime::CurrentTime (RTP_HAVE_CLOCK_GETTIME) and its callers. *)
(***************************************************************************)
VARIABLES
  realtime,       \* CLOCK_REALTIME, in ticks
  monotonic,      \* CLOCK_MONOTONIC, in ticks
  s_initialized,  \* static bool s_initialized
  s_startOffet,   \* static double s_startOffet
  cpc,            \* per caller: where it is in CurrentTime
  tSys,           \* per caller: the local tSys
  tMono,          \* per caller: the local tMono / tMono0
  crun,           \* the callers that run: the static initializer, or the threads
  cmode,          \* "single": one caller only; "threads": initializer, then threads
  cret,           \* the value the last call returned (NoTime: none yet)
  cprev,          \* the value the call before it returned
  cfirst,         \* the last call was a first call, and the sample it took
  realReads,      \* reads of CLOCK_REALTIME so far (counted up to 2)
  offsetSets,     \* assignments to s_startOffet so far (counted up to 2)
  usedUnset       \* a call returned a sum with an s_startOffet not yet assigned

clockVars == <<realtime, monotonic, s_initialized, s_startOffet, cpc, tSys, tMono,
               crun, cmode, cret, cprev, cfirst, realReads, offsetSets, usedUnset>>

\* RTPTime::Wait: position, the delay, the timespecs handed to and filled by
\* nanosleep, and a record of the time slept and the signals so far
VARIABLES
  slpc, delay, req, rem, slept, nsleeps, nintr

sleepVars == <<slpc, delay, req, rem, slept, nsleeps, nintr>>

\* Poll on a transmitter with several destinations whose peers may shut
\* down: the call's position, the sockets whose peer has closed, the bitmap
\* MultiWait returned, the return code, the OnReceiveError calls of the
\* last Poll, and what that Poll found when it took m_mainMutex again
VARIABLES
  ppc, pclosed, pflags, pret, phooks, plast

pollVars == <<ppc, pclosed, pflags, pret, phooks, plast>>

\* SendRTPData / SendRTCPData: the call's position, its len and data, how
\* each destination's writes will fare, the destinations still to be
\* written to, the bytes written to each socket, the OnSendError calls, the
\* number of destinations that took the whole frame, and the return code
VARIABLES
  sndpc, sndlen, snddata, sndfail, sndtodo, sndwire, sndhooks, sndok, sndret

sendVars == <<sndpc, sndlen, snddata, sndfail, sndtodo, sndwire, sndhooks, sndok,
              sndret>>

\* The two mutexes of a thread-safe transmitter: per thread the call it is
\* in and where in it; the holder of m_mainMutex; the calls completed
\* during the pending wait
VARIABLES
  mop, mpc, m_mainMutex, mdone

mutexVars == <<mop, mpc, m_mainMutex, mdone>>

\* Create and Destroy of the transmitter: m_created, its own abort channel,
\* the channel it uses, the caller's channel and the bytes signalled on
\* it, the handles open in the process, whether the transmitter has called
\* Init or Destroy on the caller's channel, and the last call made
VARIABLES
  m_created, m_abortDesc, m_pAbortDesc, extDesc, extPipe, trFds, extTouched,
  trLast

createVars == <<m_created, m_abortDesc, m_pAbortDesc, extDesc, extPipe, trFds,
                extTouched, trLast>>

\* An RTPKeyHashTable: its members, the memory its HashElements live in,
\* the slots of that memory that hold an element, whether memory that held
\* no element was freed, the keys the operations have put in and not taken
\* out, oldest first, and the last operation
VARIABLES
  table, firsthashelem, lasthashelem, curhashelem, heap, allocated, badFree,
  contents, hlast

hashVars == <<table, firsthashelem, lasthashelem, curhashelem, heap, allocated,
              badFree, contents, hlast>>

\* A loop over the table that visits each element and either deletes it or
\* moves on: whether it is running, the keys it has visited, and the keys
\* the table held when it began
VARIABLES
  lpc, visited, atstart

loopVars == <<lpc, visited, atstart>>

restVars == <<clockVars, sleepVars, pollVars, sendVars, mutexVars, createVars,
              hashVars, loopVars>>

vars == <<reasmVars, abortVars, waitVars, ntpVars, restVars>>

\* what the actions of one component leave alone
NotReasm == <<abortVars, waitVars, ntpVars, restVars>>
NotAbort == <<reasmVars, waitVars, ntpVars, restVars>>
NotWait == <<reasmVars, variant, chan, openFds, badClose, athreads, apc, clr,
             last, prev, ntpVars, restVars>>
NotNtp == <<reasmVars, abortVars, waitVars, restVars>>
NotClock == <<reasmVars, abortVars, waitVars, ntpVars, sleepVars, pollVars,
              sendVars, mutexVars, createVars, hashVars, loopVars>>
NotSleep == <<reasmVars, abortVars, waitVars, ntpVars, clockVars, pollVars,
              sendVars, mutexVars, createVars, hashVars, loopVars>>
NotPoll == <<reasmVars, abortVars, ntpVars, clockVars, sleepVars, sendVars,
             mutexVars, createVars, hashVars, loopVars, wpc, waitMutex, m_tmpSocks,
             m_tmpFlags, abortedWait, lastDone>>
NotSend == <<reasmVars, abortVars, waitVars, ntpVars, clockVars, sleepVars,
             pollVars, mutexVars, createVars, hashVars, loopVars>>
NotMutex == <<reasmVars, abortVars, ntpVars, clockVars, sleepVars, pollVars,
              sendVars, createVars, hashVars, loopVars, wpc, wstream, wbuf, wconsumed,
              m_rawpacketlist, m_tmpSocks, m_tmpFlags, recvErrors, abortedWait,
              lastDone>>
NotCreate == <<reasmVars, abortVars, waitVars, ntpVars, clockVars, sleepVars,
               pollVars, sendVars, mutexVars, hashVars, loopVars>>
NotHash == <<reasmVars, abortVars, waitVars, ntpVars, clockVars, sleepVars,
             pollVars, sendVars, mutexVars, createVars, loopVars>>
NotLoop == <<reasmVars, abortVars, waitVars, ntpVars, clockVars, sleepVars,
             pollVars, sendVars, mutexVars, createVars>>


Min(a, b) == IF a < b THEN a ELSE b

TakeN(s, n) == SubSeq(s, 1, n)
DropN(s, n) == SubSeq(s, n + 1, Len(s))

(***************************************************************************)
(* RTPTCPTransmitter::SocketData                                           *)
(***************************************************************************)
\* a null m_pDataBuffer, and an allocated one of n bytes not yet written
Uninit == 0 - 1
NullBuf == [null |-> TRUE, mem |-> <<>>]
NewBuf(n) == [null |-> FALSE, mem |-> [i \in 1..n |-> Uninit]]

\* SocketData::SocketData(): the state Reset() leaves
SocketDataNew ==
  [m_lengthBuffer |-> <<0, 0>>,
   m_lengthBufferOffset |-> 0,
   m_dataLength |-> 0,
   m_dataBufferOffset |-> 0,
   m_pDataBuffer |-> NullBuf]

\* Reset that forgets the payload offset
ResetKeepsOffset(sd) ==
  [sd EXCEPT !.m_lengthBufferOffset = 0,
             !.m_dataLength = 0,
             !.m_pDataBuffer = NullBuf]

\* SocketData::Reset(): zeroes lenOff, dataLen, dataOff; the buffer is freed
Reset(sd) ==
  [sd EXCEPT !.m_lengthBufferOffset = 0,
             !.m_dataLength = 0,
             !.m_dataBufferOffset = 0,
             !.m_pDataBuffer = NullBuf]

\* ExtractDataBuffer with its two assignments swapped: the pointer is cleared
\* before it is copied, and null is handed out
ExtractDataBufferCleared(sd) ==
  [pTmp |-> NullBuf, sd |-> [sd EXCEPT !.m_pDataBuffer = NullBuf]]

\* uint8_t *ExtractDataBuffer() { pTmp = m_pDataBuffer; m_pDataBuffer = 0; return pTmp; }
ExtractDataBuffer(sd) ==
  [pTmp |-> sd.m_pDataBuffer, sd |-> [sd EXCEPT !.m_pDataBuffer = NullBuf]]

\* dataLen = (lenBuf[0] << 8) | lenBuf[1]
DecodeLength(lb) == lb[1] * 256 + lb[2]

\* recv(sock, p, num): 0 on an empty buffer (the peer has shut down), else at
\* most num bytes, at least one, as many as the kernel chooses to hand out (r)
RecvCount(buf, num, r) == IF Len(buf) = 0 THEN 0 ELSE Min(Min(num, r), Len(buf))

\* writes bytes bs into array a from 0-based offset off
StoreAt(a, off, bs) ==
  [i \in 1..Len(a) |-> IF i > off /\ i <= off + Len(bs) THEN bs[i - off] ELSE a[i]]

\* the length phase of ProcessAvailableBytes (spec 4.4 step 1)
LengthPhase(sd, buf, availLen, r, maxPack) ==
  IF sd.m_lengthBufferOffset >= 2 \/ availLen <= 0
  THEN [sd |-> sd, buf |-> buf, avail |-> availLen, status |-> "ok"]
  ELSE LET num == Min(2 - sd.m_lengthBufferOffset, availLen)
           n == RecvCount(buf, num, r)
           lb == StoreAt(sd.m_lengthBuffer, sd.m_lengthBufferOffset, TakeN(buf, n))
           off == sd.m_lengthBufferOffset + n
           sd1 == [sd EXCEPT !.m_lengthBuffer = lb, !.m_lengthBufferOffset = off]
           l == DecodeLength(lb)
       IN IF n = 0
          THEN [sd |-> sd, buf |-> buf, avail |-> availLen,
                status |-> "ConnectionClosed"]
          ELSE IF off < 2
          THEN [sd |-> sd1, buf |-> DropN(buf, n), avail |-> availLen - n,
                status |-> "ok"]
          ELSE IF l > maxPack
          THEN [sd |-> sd1, buf |-> DropN(buf, n), avail |-> availLen - n,
                status |-> "OversizedFrame"]
          ELSE [sd |-> [sd1 EXCEPT !.m_dataLength = l,
                                   !.m_dataBufferOffset = 0,
                                   !.m_pDataBuffer = NewBuf(l)],
                buf |-> DropN(buf, n), avail |-> availLen - n, status |-> "ok"]

\* the payload phase of ProcessAvailableBytes (spec 4.4 step 2)
PayloadPhase(sd, buf, availLen, r) ==
  IF sd.m_lengthBufferOffset < 2 \/ availLen <= 0
     \/ sd.m_dataBufferOffset >= sd.m_dataLength
  THEN [sd |-> sd, buf |-> buf, avail |-> availLen, status |-> "ok"]
  ELSE LET num == Min(sd.m_dataLength - sd.m_dataBufferOffset, availLen)
           n == RecvCount(buf, num, r)
           mem == StoreAt(sd.m_pDataBuffer.mem, sd.m_dataBufferOffset, TakeN(buf, n))
       IN IF n = 0
          THEN [sd |-> sd, buf |-> buf, avail |-> availLen,
                status |-> "ConnectionClosed"]
          ELSE [sd |-> [sd EXCEPT !.m_pDataBuffer = [null |-> FALSE, mem |-> mem],
                                  !.m_dataBufferOffset = sd.m_dataBufferOffset + n],
                buf |-> DropN(buf, n), avail |-> availLen - n, status |-> "ok"]

\* complete iff lenOff = 2 and dataOff = dataLen (spec 4.4 step 3)
FrameComplete(sd) ==
  sd.m_lengthBufferOffset = 2 /\ sd.m_dataBufferOffset = sd.m_dataLength

\* int ProcessAvailableBytes(sock, availLen, complete, pMgr): buf is the socket's
\* kernel receive buffer, r1 and r2 the sizes of the two reads
ProcessAvailableBytes(sd, buf, availLen, r1, r2, maxPack) ==
  LET p1 == LengthPhase(sd, buf, availLen, r1, maxPack)
      p2 == PayloadPhase(p1.sd, p1.buf, p1.avail, r2)
  IN IF p1.status # "ok"
     THEN [sd |-> p1.sd, buf |-> p1.buf, complete |-> FALSE, status |-> p1.status]
     ELSE IF p2.status # "ok"
     THEN [sd |-> p2.sd, buf |-> p2.buf, complete |-> FALSE, status |-> p2.status]
     ELSE [sd |-> p2.sd, buf |-> p2.buf, complete |-> FrameComplete(p2.sd),
           status |-> "ok"]

(***************************************************************************)
(* RTPAbortDescriptors (src/src/rtpabortdescriptors.cpp).                  *)
(* The channel's buffered bytes are all '*', so they are counted.  Handles *)
(* are numbers 1..MaxFd, the lowest free one being handed out.             *)
(***************************************************************************)
RTPSOCKERR == -1

RetOk == "0"
ERR_ALREADYINIT == "ERR_RTP_ABORTDESC_ALREADYINIT"
ERR_NOTINIT == "ERR_RTP_ABORTDESC_NOTINIT"
ERR_CANTCREATEPIPE == "ERR_RTP_ABORTDESC_CANTCREATEPIPE"
ERR_CANTCREATEABORTDESCRIPTORS == "ERR_RTP_ABORTDESC_CANTCREATEABORTDESCRIPTORS"

\* where socket-pair construction (RTP_SOCKETTYPE_WINSOCK) can fail, in order
WinsockSteps == <<"socket1", "bind1", "getsockname", "socket2", "bind2",
                  "listen", "connect", "accept">>
InitFailures(v) ==
  IF v = "unix" THEN {"none", "pipe"}
  ELSE {"none"} \cup {WinsockSteps[i] : i \in 1..Len(WinsockSteps)}

SeqSet(q) == {q[i] : i \in 1..Len(q)}

\* the handle the system hands out next
LowestFree(open) ==
  CHOOSE f \in 1..(MaxFd + 2) : f \notin open /\ \A g \in 1..(f - 1) : g \in open

\* the constructor: both descriptors invalid, not initialized
AbortDescNew == [m_init |-> FALSE, m_descriptors |-> <<RTPSOCKERR, RTPSOCKERR>>]

\* an Init that does not look at m_init
InitUnixUnchecked(ch, open, fail) ==
  LET r == LowestFree(open)
      w == LowestFree(open \cup {r})
  IN IF fail = "pipe" \/ w > MaxFd
     THEN [ch |-> ch, ret |-> ERR_CANTCREATEPIPE, fail |-> "pipe",
           opened |-> <<>>, closed |-> <<>>]
     ELSE [ch |-> [m_init |-> TRUE, m_descriptors |-> <<r, w>>],
           ret |-> RetOk, fail |-> "none", opened |-> <<r, w>>, closed |-> <<>>]

\* the unix Init: pipe(m_descriptors)
InitUnix(ch, open, fail) ==
  LET r == LowestFree(open)
      w == LowestFree(open \cup {r})
  IN IF ch.m_init
     THEN [ch |-> ch, ret |-> ERR_ALREADYINIT, fail |-> "none",
           opened |-> <<>>, closed |-> <<>>]
     ELSE IF fail = "pipe" \/ w > MaxFd
     THEN [ch |-> ch, ret |-> ERR_CANTCREATEPIPE, fail |-> "pipe",
           opened |-> <<>>, closed |-> <<>>]
     ELSE [ch |-> [m_init |-> TRUE, m_descriptors |-> <<r, w>>],
           ret |-> RetOk, fail |-> "none", opened |-> <<r, w>>, closed |-> <<>>]

\* a rollback that forgets the connecting socket when accept fails
WinsockRollbackLeaks(fail, listensock, d0) ==
  CASE fail = "socket1" -> <<>>
    [] fail \in {"bind1", "getsockname", "socket2", "accept"} -> <<listensock>>
    [] fail \in {"bind2", "listen", "connect"} -> <<listensock, d0>>
    [] OTHER -> <<listensock>>

\* the handles the winsock Init closes before it returns the failure of `fail`
WinsockRollback(fail, listensock, d0) ==
  CASE fail = "socket1" -> <<>>
    [] fail \in {"bind1", "getsockname", "socket2"} -> <<listensock>>
    [] fail \in {"bind2", "listen", "connect", "accept"} -> <<listensock, d0>>
    [] OTHER -> <<listensock>>

\* the winsock Init: listen on an ephemeral port, connect, accept, close the
\* listener
InitWinsock(ch, open, fail) ==
  LET listensock == LowestFree(open)
      d0 == LowestFree(open \cup {listensock})
      d1 == LowestFree(open \cup {listensock, d0})
      f == IF fail # "none" THEN fail
           ELSE IF listensock > MaxFd THEN "socket1"
           ELSE IF d0 > MaxFd THEN "socket2"
           ELSE IF d1 > MaxFd THEN "accept"
           ELSE "none"
      opened == CASE f = "socket1" -> <<>>
                  [] f \in {"bind1", "getsockname", "socket2"} -> <<listensock>>
                  [] f \in {"bind2", "listen", "connect", "accept"} ->
                       <<listensock, d0>>
                  [] OTHER -> <<listensock, d0, d1>>
      desc == CASE f \in {"socket1", "bind1", "getsockname"} -> ch.m_descriptors
                [] f = "socket2" -> <<RTPSOCKERR, ch.m_descriptors[2]>>
                [] f \in {"bind2", "listen", "connect"} -> <<d0, ch.m_descriptors[2]>>
                [] f = "accept" -> <<d0, RTPSOCKERR>>
                [] OTHER -> <<d0, d1>>
  IN IF ch.m_init
     THEN [ch |-> ch, ret |-> ERR_ALREADYINIT, fail |-> "none",
           opened |-> <<>>, closed |-> <<>>]
     ELSE [ch |-> [m_init |-> (f = "none"), m_descriptors |-> desc],
           ret |-> IF f = "none" THEN RetOk ELSE ERR_CANTCREATEABORTDESCRIPTORS,
           fail |-> f,
           opened |-> opened,
           closed |-> WinsockRollback(f, listensock, d0)]

\* Destroy that does not clear the initialized flag
DestroyKeepsInit(ch) ==
  IF ~ch.m_init
  THEN [ch |-> ch, closed |-> <<>>]
  ELSE [ch |-> [m_init |-> TRUE, m_descriptors |-> <<RTPSOCKERR, RTPSOCKERR>>],
        closed |-> <<ch.m_descriptors[1], ch.m_descriptors[2]>>]

\* Destroy(): close both ends, invalidate them, clear the flag
DestroyResult(ch) ==
  IF ~ch.m_init
  THEN [ch |-> ch, closed |-> <<>>]
  ELSE [ch |-> [m_init |-> FALSE, m_descriptors |-> <<RTPSOCKERR, RTPSOCKERR>>],
        closed |-> <<ch.m_descriptors[1], ch.m_descriptors[2]>>]

\* a drain loop that stops one byte early
SelectReadableOffByOne(n) == n > 1

\* RTPSelect(&m_descriptors[0], &isset, 1, RTPTime(0)): readable iff a byte
\* is buffered
SelectReadable(n) == n > 0

AThreads == 1..NThreads

NoOp == [op |-> "none", ret |-> RetOk, fail |-> "none", pre |-> AbortDescNew,
         preOpen |-> {}, prePipe |-> 0, opened |-> <<>>, closed |-> <<>>,
         reads |-> 0]

\* the record of an operation by its inputs
OpRec(op, ret, fail, opened, closed, reads) ==
  [op |-> op, ret |-> ret, fail |-> fail, pre |-> chan, preOpen |-> openFds,
   prePipe |-> pipe, opened |-> opened, closed |-> closed, reads |-> reads]

\* an operation is entered (and, unless it blocks or loops, returns)
Returned(rec) == /\ prev' = last
                 /\ last' = rec

\* an operation entered earlier returns
Completed(rec) == /\ last' = rec
                  /\ UNCHANGED prev

\* int RTPAbortDescriptors::Init()
AbortDescInit(t) ==
  /\ UNCHANGED NotAbort
  /\ t \in athreads /\ apc[t] = "idle"
  /\ \E fail \in InitFailures(variant) :
       LET r == IF variant = "unix" THEN InitUnix(chan, openFds, fail)
                ELSE InitWinsock(chan, openFds, fail)
       IN /\ chan' = r.ch
          /\ openFds' = (openFds \cup SeqSet(r.opened)) \ SeqSet(r.closed)
          /\ badClose' = (badClose \/ ~(SeqSet(r.closed) \subseteq
                                         (openFds \cup SeqSet(r.opened))))
          /\ pipe' = IF r.ret = RetOk THEN 0 ELSE pipe
          /\ Returned(OpRec("Init", r.ret, r.fail, r.opened, r.closed, 0))
  /\ UNCHANGED <<variant, athreads, apc, clr>>

\* void RTPAbortDescriptors::Destroy() (also the destructor)
AbortDescDestroy(t) ==
  /\ UNCHANGED NotAbort
  /\ t \in athreads /\ apc[t] = "idle"
  /\ LET r == DestroyResult(chan)
     IN /\ chan' = r.ch
        /\ openFds' = openFds \ SeqSet(r.closed)
        /\ badClose' = (badClose \/ ~(SeqSet(r.closed) \subseteq openFds)
                                 \/ Cardinality(SeqSet(r.closed)) # Len(r.closed))
        /\ pipe' = IF Len(r.closed) > 0 THEN 0 ELSE pipe
        /\ Returned(OpRec("Destroy", RetOk, "none", <<>>, r.closed, 0))
  /\ UNCHANGED <<variant, athreads, apc, clr>>

\* a write that stores nothing
WriteNothing(n) == n

\* write(m_descriptors[1], "*", 1) on a channel with room: one more byte
WriteByte(n) == n + 1

\* int RTPAbortDescriptors::SendAbortSignal(): the write stores the byte at
\* once when the channel has room and blocks when it is full
SendAbortSignal(t) ==
  /\ UNCHANGED NotAbort
  /\ t \in athreads /\ apc[t] = "idle"
  /\ IF ~chan.m_init
     THEN /\ Returned(OpRec("SendAbortSignal", ERR_NOTINIT, "none", <<>>, <<>>, 0))
          /\ UNCHANGED <<pipe, apc>>
     ELSE IF pipe < PipeCap
     THEN /\ pipe' = WriteByte(pipe)
          /\ Returned(OpRec("SendAbortSignal", RetOk, "none", <<>>, <<>>, 0))
          /\ UNCHANGED apc
     ELSE /\ apc' = [apc EXCEPT ![t] = "write"]
          /\ Returned(OpRec("SendAbortSignal", "pending", "none", <<>>, <<>>, 0))
          /\ UNCHANGED pipe
  /\ UNCHANGED <<variant, chan, openFds, badClose, athreads, clr>>

\* the blocked write goes through once a reader has made room
SendAbortSignalWritten(t) ==
  /\ UNCHANGED NotAbort
  /\ t \in athreads /\ apc[t] = "write"
  /\ pipe < PipeCap
  /\ pipe' = WriteByte(pipe)
  /\ apc' = [apc EXCEPT ![t] = "idle"]
  /\ Completed(OpRec("SendAbortSignal", RetOk, "none", <<>>, <<>>, 0))
  /\ UNCHANGED <<variant, chan, openFds, badClose, athreads, clr>>

\* the blocked write is interrupted by a signal (EINTR): nothing is written,
\* the result of write is ignored and 0 is returned
SendAbortSignalInterrupted(t) ==
  /\ UNCHANGED NotAbort
  /\ t \in athreads /\ apc[t] = "write"
  /\ apc' = [apc EXCEPT ![t] = "idle"]
  /\ Completed(OpRec("SendAbortSignal", RetOk, "write", <<>>, <<>>, 0))
  /\ UNCHANGED <<variant, chan, openFds, pipe, badClose, athreads, clr>>

\* int RTPAbortDescriptors::ClearAbortSignal(): entry
ClearAbortSignal(t) ==
  /\ UNCHANGED NotAbort
  /\ t \in athreads /\ apc[t] = "idle"
  /\ IF ~chan.m_init
     THEN /\ Returned(OpRec("ClearAbortSignal", ERR_NOTINIT, "none", <<>>, <<>>, 0))
          /\ UNCHANGED <<apc, clr>>
     ELSE /\ apc' = [apc EXCEPT ![t] = "select"]
          /\ clr' = [clr EXCEPT ![t] = [n0 |-> pipe, reads |-> 0]]
          /\ Returned(OpRec("ClearAbortSignal", "pending", "none", <<>>, <<>>, 0))
  /\ UNCHANGED <<variant, chan, openFds, pipe, badClose, athreads>>

\* the loop's RTPSelect with a zero timeout: done when nothing is readable,
\* else ReadSignallingByte is called
ClearAbortSignalSelect(t) ==
  /\ UNCHANGED NotAbort
  /\ t \in athreads /\ apc[t] = "select"
  /\ IF SelectReadable(pipe)
     THEN /\ apc' = [apc EXCEPT ![t] = "read"]
          /\ UNCHANGED <<last, prev>>
     ELSE /\ apc' = [apc EXCEPT ![t] = "idle"]
          /\ Completed([OpRec("ClearAbortSignal", RetOk, "none", <<>>, <<>>,
                              clr[t].reads) EXCEPT !.prePipe = clr[t].n0])
  /\ UNCHANGED <<variant, chan, openFds, pipe, badClose, athreads, clr>>

\* ReadSignallingByte: read(m_descriptors[0], buf, 1) takes one byte, and
\* blocks while there is none
ClearAbortSignalRead(t) ==
  /\ UNCHANGED NotAbort
  /\ t \in athreads /\ apc[t] = "read"
  /\ pipe > 0
  /\ pipe' = pipe - 1
  /\ clr' = [clr EXCEPT ![t].reads = Min(@ + 1, PipeCap + 1)]
  /\ apc' = [apc EXCEPT ![t] = "select"]
  /\ UNCHANGED <<variant, chan, openFds, badClose, athreads, last, prev>>

\* int RTPAbortDescriptors::ReadSignallingByte() called on its own: NOTINIT
\* on a channel that is not initialized, else one byte is read.  The read
\* of an empty channel blocks; with one caller it never returns, and the
\* call is not followed.
ReadSignallingByte(t) ==
  /\ UNCHANGED NotAbort
  /\ t \in athreads /\ apc[t] = "idle"
  /\ IF ~chan.m_init
     THEN /\ Returned(OpRec("ReadSignallingByte", ERR_NOTINIT, "none", <<>>, <<>>, 0))
          /\ UNCHANGED pipe
     ELSE /\ pipe > 0
          /\ pipe' = pipe - 1
          /\ Returned(OpRec("ReadSignallingByte", RetOk, "none", <<>>, <<>>, 1))
  /\ UNCHANGED <<variant, chan, openFds, badClose, athreads, apc, clr>>

\* the abort channel variables while another component is specified
AbortIdle ==
  /\ variant = "unix"
  /\ chan = AbortDescNew
  /\ openFds = {}
  /\ pipe = 0
  /\ badClose = FALSE
  /\ athreads = {}
  /\ apc = [t \in AThreads |-> "idle"]
  /\ clr = [t \in AThreads |-> [n0 |-> 0, reads |-> 0]]
  /\ last = NoOp
  /\ prev = NoOp

\* one caller at a time: the channel is constructed, then used through its
\* whole interface, in either build
AbortSeqInit ==
  /\ variant \in {"unix", "winsock"}
  /\ chan = AbortDescNew
  /\ openFds \in {{}, {2}, {1, 2}}
  /\ pipe = 0
  /\ badClose = FALSE
  /\ athreads = {1}
  /\ apc = [t \in AThreads |-> "idle"]
  /\ clr = [t \in AThreads |-> [n0 |-> 0, reads |-> 0]]
  /\ last = NoOp
  /\ prev = NoOp

AbortSeqNext ==
  \E t \in AThreads :
    \/ AbortDescInit(t)
    \/ AbortDescDestroy(t)
    \/ SendAbortSignal(t)
    \/ SendAbortSignalInterrupted(t)
    \/ ClearAbortSignal(t)
    \/ ClearAbortSignalSelect(t)
    \/ ClearAbortSignalRead(t)

\* one caller at a time, ReadSignallingByte included
AbortLifeNext ==
  \E t \in AThreads :
    \/ AbortDescInit(t)
    \/ AbortDescDestroy(t)
    \/ SendAbortSignal(t)
    \/ SendAbortSignalInterrupted(t)
    \/ ReadSignallingByte(t)
    \/ ClearAbortSignal(t)
    \/ ClearAbortSignalSelect(t)
    \/ ClearAbortSignalRead(t)

\* several threads signal and clear one initialized channel
AbortConcInit ==
  /\ variant \in {"unix", "winsock"}
  /\ chan = [m_init |-> TRUE, m_descriptors |-> <<1, 2>>]
  /\ openFds = {1, 2}
  /\ pipe \in 0..PipeCap
  /\ badClose = FALSE
  /\ athreads = AThreads
  /\ apc = [t \in AThreads |-> "idle"]
  /\ clr = [t \in AThreads |-> [n0 |-> 0, reads |-> 0]]
  /\ last = NoOp
  /\ prev = NoOp

AbortConcNext ==
  \E t \in AThreads :
    \/ SendAbortSignal(t)
    \/ SendAbortSignalWritten(t)
    \/ SendAbortSignalInterrupted(t)
    \/ ClearAbortSignal(t)
    \/ ClearAbortSignalSelect(t)
    \/ ClearAbortSignalRead(t)

(***************************************************************************)
(* RTPTCPTransmitter: Poll / WaitForIncomingData and AbortWait (spec 4.5,  *)
(* section 5).  The sections a thread runs under m_mainMutex contain no    *)
(* blocking call and are single steps; MultiWait runs with m_mainMutex     *)
(* released and m_waitMutex held.                                          *)
(***************************************************************************)
DSocks == 1..NSocks

\* the byte streams a peer may send in this specification: a frame, and a
\* frame whose length is over every maximum packet size
WaitStreams == {<<0, 1, 1>>, <<1, 0>>}

NoFlags == [socks |-> {}, abort |-> FALSE]
NoDone == [valid |-> FALSE, abort |-> FALSE, left |-> {}, frames |-> 0,
           aborted |-> FALSE]

\* a socket is readable when bytes are buffered
Readable(s) == Len(wbuf[s]) > 0

\* the readiness bitmap MultiWait returns for a snapshot
MultiWaitFlags(snapshot) ==
  [socks |-> {s \in snapshot : Readable(s)}, abort |-> SelectReadable(pipe)]

\* Drain(): ClearAbortSignal by the only reader, no signaller being able to
\* run meanwhile: one byte per positive select until nothing is readable
RECURSIVE DrainAll(_)
DrainAll(n) == IF SelectReadable(n) THEN DrainAll(n - 1) ELSE n

\* PollSocket: the reassembler is driven until the socket would block or an
\* error is reported; frames are the payloads completed on the way
RECURSIVE DriveSocket(_, _, _, _)
DriveNext(r, frames, maxPack) ==
  IF r.status # "ok"
  THEN [sd |-> r.sd, buf |-> r.buf, frames |-> frames, status |-> r.status]
  ELSE IF r.complete
  THEN DriveSocket(Reset(ExtractDataBuffer(r.sd).sd), r.buf,
                   Append(frames, ExtractDataBuffer(r.sd).pTmp.mem), maxPack)
  ELSE DriveSocket(r.sd, r.buf, frames, maxPack)

DriveSocket(sd, buf, frames, maxPack) ==
  IF Len(buf) = 0
  THEN [sd |-> sd, buf |-> buf, frames |-> frames, status |-> "ok"]
  ELSE DriveNext(ProcessAvailableBytes(sd, buf, Len(buf), 2, maxPack + 1, maxPack),
                 frames, maxPack)

\* the sockets of a bitmap in map order
RECURSIVE SetToSeq(_)
SetToSeq(S) ==
  IF S = {} THEN <<>>
  ELSE LET m == CHOOSE x \in S : \A y \in S : x <= y
       IN <<m>> \o SetToSeq(S \ {m})

\* a receive error that reports but leaves the destination in the set
PollResultKeepsDestination(s, st, d) ==
  [dest |-> [st.dest EXCEPT ![s] = d.sd],
   buf |-> [st.buf EXCEPT ![s] = d.buf],
   consumed |-> [st.consumed EXCEPT ![s] =
                   @ \o TakeN(st.buf[s], Len(st.buf[s]) - Len(d.buf))],
   queue |-> st.queue \o [i \in 1..Len(d.frames) |-> <<s, d.frames[i]>>],
   errors |-> IF d.status = "ok" THEN st.errors ELSE st.errors \cup {s}]

\* one ready socket of a wake cycle: its frames are enqueued; an error calls
\* OnReceiveError and removes the destination
PollResult(s, st, d) ==
  [dest |-> IF d.status = "ok"
            THEN [st.dest EXCEPT ![s] = d.sd]
            ELSE [x \in (DOMAIN st.dest) \ {s} |-> st.dest[x]],
   buf |-> [st.buf EXCEPT ![s] = d.buf],
   consumed |-> [st.consumed EXCEPT ![s] =
                   @ \o TakeN(st.buf[s], Len(st.buf[s]) - Len(d.buf))],
   queue |-> st.queue \o [i \in 1..Len(d.frames) |-> <<s, d.frames[i]>>],
   errors |-> IF d.status = "ok" THEN st.errors ELSE st.errors \cup {s}]

PollSocket(s, st) ==
  PollResult(s, st, DriveSocket(st.dest[s], st.buf[s], <<>>, m_maxPackSize))

\* receive path steps 3 and 4: every ready destination is processed; the
\* abort bit plays no part
RECURSIVE ProcessReady(_, _)
ProcessReady(todo, st) ==
  IF Len(todo) = 0 THEN st
  ELSE ProcessReady(Tail(todo), PollSocket(Head(todo), st))

\* TCP delivers the next k bytes of a peer's stream
WaitArrive(s) ==
  /\ UNCHANGED NotWait
  /\ Len(wstream[s]) > 0
  /\ \E k \in 1..Len(wstream[s]) :
       /\ wbuf' = [wbuf EXCEPT ![s] = @ \o TakeN(wstream[s], k)]
       /\ wstream' = [wstream EXCEPT ![s] = DropN(@, k)]
  /\ UNCHANGED <<pipe, wpc, waitMutex, m_waitingForData, m_destSockets,
                 wconsumed, m_rawpacketlist, m_tmpSocks, m_tmpFlags, recvErrors,
                 abortedWait, lastDone>>

\* receive path step 1, under m_mainMutex: snapshot the destinations, set
\* waitingForData, release m_mainMutex
WaitEnter(t) ==
  /\ UNCHANGED NotWait
  /\ wpc[t] = "idle"
  /\ m_tmpSocks' = [m_tmpSocks EXCEPT ![t] = DOMAIN m_destSockets]
  /\ m_waitingForData' = TRUE
  /\ wpc' = [wpc EXCEPT ![t] = "lockwait"]
  /\ UNCHANGED <<pipe, waitMutex, m_destSockets, wstream, wbuf, wconsumed,
                 m_rawpacketlist, m_tmpFlags, recvErrors, abortedWait, lastDone>>

\* m_waitMutex: one thread at a time in MultiWait
WaitLock(t) ==
  /\ UNCHANGED NotWait
  /\ wpc[t] = "lockwait"
  /\ waitMutex = 0
  /\ waitMutex' = t
  /\ wpc' = [wpc EXCEPT ![t] = "multiwait"]
  /\ UNCHANGED <<pipe, m_waitingForData, m_destSockets, wstream, wbuf,
                 wconsumed, m_rawpacketlist, m_tmpSocks, m_tmpFlags, recvErrors,
                 abortedWait, lastDone>>

\* MultiWait returns because a descriptor of the snapshot, or the abort
\* channel, is readable
MultiWaitReady(t) ==
  /\ UNCHANGED NotWait
  /\ wpc[t] = "multiwait"
  /\ LET f == MultiWaitFlags(m_tmpSocks[t])
     IN /\ f.socks # {} \/ f.abort
        /\ m_tmpFlags' = [m_tmpFlags EXCEPT ![t] = f]
  /\ wpc' = [wpc EXCEPT ![t] = "woken"]
  /\ abortedWait' = FALSE
  /\ lastDone' = [NoDone EXCEPT !.aborted = abortedWait]
  /\ UNCHANGED <<pipe, waitMutex, m_waitingForData, m_destSockets, wstream, wbuf,
                 wconsumed, m_rawpacketlist, m_tmpSocks, recvErrors>>

\* MultiWait returns because the delay has elapsed (at once for Poll)
MultiWaitTimeout(t) ==
  /\ UNCHANGED NotWait
  /\ wpc[t] = "multiwait"
  /\ m_tmpFlags' = [m_tmpFlags EXCEPT ![t] = MultiWaitFlags(m_tmpSocks[t])]
  /\ wpc' = [wpc EXCEPT ![t] = "woken"]
  /\ abortedWait' = FALSE
  /\ lastDone' = [NoDone EXCEPT !.aborted = abortedWait]
  /\ UNCHANGED <<pipe, waitMutex, m_waitingForData, m_destSockets, wstream, wbuf,
                 wconsumed, m_rawpacketlist, m_tmpSocks, recvErrors>>

\* receive path steps 3 to 6, under m_mainMutex again: the ready sockets are
\* processed, the abort channel drained if its bit is set, waitingForData
\* cleared, both mutexes released
WaitProcess(t) ==
  /\ UNCHANGED NotWait
  /\ wpc[t] = "woken"
  /\ LET ready == m_tmpFlags[t].socks \cap DOMAIN m_destSockets
         st == ProcessReady(SetToSeq(ready),
                            [dest |-> m_destSockets, buf |-> wbuf,
                             consumed |-> wconsumed, queue |-> m_rawpacketlist,
                             errors |-> recvErrors])
     IN /\ m_destSockets' = st.dest
        /\ wbuf' = st.buf
        /\ wconsumed' = st.consumed
        /\ m_rawpacketlist' = st.queue
        /\ recvErrors' = st.errors
        /\ lastDone' = [valid |-> TRUE, abort |-> m_tmpFlags[t].abort,
                        left |-> {s \in ready : s \in DOMAIN st.dest
                                                /\ Len(st.buf[s]) > 0},
                        frames |-> Len(st.queue) - Len(m_rawpacketlist),
                        aborted |-> lastDone.aborted]
  /\ pipe' = IF m_tmpFlags[t].abort THEN DrainAll(pipe) ELSE pipe
  /\ m_waitingForData' = FALSE
  /\ waitMutex' = 0
  /\ m_tmpSocks' = [m_tmpSocks EXCEPT ![t] = {}]
  /\ m_tmpFlags' = [m_tmpFlags EXCEPT ![t] = NoFlags]
  /\ wpc' = [wpc EXCEPT ![t] = "idle"]
  /\ UNCHANGED <<wstream, abortedWait>>

\* AbortWait(), under m_mainMutex: if waitingForData, signal the abort
\* channel; otherwise nothing.  (The channel is kept short of full.)
AbortWait(t) ==
  /\ UNCHANGED NotWait
  /\ wpc[t] = "idle"
  /\ pipe < PipeCap
  /\ IF m_waitingForData /\ chan.m_init
     THEN /\ pipe' = WriteByte(pipe)
          /\ abortedWait' = (abortedWait \/ \E u \in AThreads : wpc[u] = "multiwait")
     ELSE UNCHANGED <<pipe, abortedWait>>
  /\ UNCHANGED <<wpc, waitMutex, m_waitingForData, m_destSockets, wstream, wbuf,
                 wconsumed, m_rawpacketlist, m_tmpSocks, m_tmpFlags,
                 recvErrors, lastDone>>

\* the receive-path variables while another component is specified
WaitIdle ==
  /\ wpc = [t \in AThreads |-> "idle"]
  /\ waitMutex = 0
  /\ m_waitingForData = FALSE
  /\ m_destSockets = <<>>
  /\ wstream = [s \in DSocks |-> <<>>]
  /\ wbuf = [s \in DSocks |-> <<>>]
  /\ wconsumed = [s \in DSocks |-> <<>>]
  /\ m_rawpacketlist = <<>>
  /\ m_tmpSocks = [t \in AThreads |-> {}]
  /\ m_tmpFlags = [t \in AThreads |-> NoFlags]
  /\ recvErrors = {}
  /\ abortedWait = FALSE
  /\ lastDone = NoDone

\* after Init(threadsafe = true), Create with no external abort channel and
\* AddDestination of every socket
WaitInit ==
  /\ wpc = [t \in AThreads |-> "idle"]
  /\ waitMutex = 0
  /\ m_waitingForData = FALSE
  /\ m_destSockets = [s \in DSocks |-> SocketDataNew]
  /\ wstream \in [DSocks -> WaitStreams]
  /\ wbuf = [s \in DSocks |-> <<>>]
  /\ wconsumed = [s \in DSocks |-> <<>>]
  /\ m_rawpacketlist = <<>>
  /\ m_tmpSocks = [t \in AThreads |-> {}]
  /\ m_tmpFlags = [t \in AThreads |-> NoFlags]
  /\ recvErrors = {}
  /\ abortedWait = FALSE
  /\ lastDone = NoDone
  /\ variant = "unix"
  /\ chan = [m_init |-> TRUE, m_descriptors |-> <<1, 2>>]
  /\ openFds = {1, 2}
  /\ pipe = 0
  /\ badClose = FALSE
  /\ athreads = {}
  /\ apc = [t \in AThreads |-> "idle"]
  /\ clr = [t \in AThreads |-> [n0 |-> 0, reads |-> 0]]
  /\ last = NoOp
  /\ prev = NoOp

WaitNext ==
  \/ \E s \in DSocks : WaitArrive(s)
  \/ \E t \in AThreads : WaitEnter(t)
  \/ \E t \in AThreads : WaitLock(t)
  \/ \E t \in AThreads : MultiWaitReady(t)
  \/ \E t \in AThreads : MultiWaitTimeout(t)
  \/ \E t \in AThreads : WaitProcess(t)
  \/ \E t \in AThreads : AbortWait(t)

(***************************************************************************)
(* RTPTime and RTPNTPTime (src/src/rtptimeutilities.h).                    *)
(* A uint32_t is a pair <<high, low>> of 16-bit halves.  m_t is an IEEE    *)
(* double; the times specified are 0 and those from 2^30 to 2^32 seconds,  *)
(* where a double is a whole number sec of seconds plus k / 2^p seconds,   *)
(* p being 22 below 2^31 seconds and 21 from there on.  With at most       *)
(* 2^15 microseconds every product and quotient below is computed by the   *)
(* double arithmetic of the code without rounding, except where a          *)
(* rounding is written.                                                    *)
(***************************************************************************)
Half == 65536

RTP_NTPTIMEOFFSET == <<33706, 32384>>

Add32(a, b) ==
  <<(a[1] + b[1] + ((a[2] + b[2]) \div Half)) % Half, (a[2] + b[2]) % Half>>

Sub32(a, b) ==
  <<(a[1] - b[1] - (IF a[2] < b[2] THEN 1 ELSE 0) + Half) % Half,
    (a[2] - b[2] + Half) % Half>>

Less32(a, b) == a[1] < b[1] \/ (a[1] = b[1] /\ a[2] < b[2])

RECURSIVE Pow2(_)
Pow2(n) == IF n = 0 THEN 1 ELSE 2 * Pow2(n - 1)

\* the bits a double has below the binary point at sec seconds
FracBits(sec) == IF sec[1] >= 32768 THEN 21 ELSE 22

\* the double nearest to sec + microsec / 10^6; 10^6 = 2^6 * 15625, and no
\* microsecond count is half-way between two doubles
NearestDouble(sec, microsec) ==
  LET p == FracBits(sec)
      n == microsec * Pow2(p - 6)
  IN [sec |-> sec, k |-> (2 * n + 15625) \div (2 * 15625), p |-> p]

ZeroTime == [sec |-> <<0, 0>>, k |-> 0, p |-> 22]

\* RTPTime(int64_t seconds, uint32_t microseconds), seconds >= 0:
\* m_t = (double)seconds + 1e-6*(double)microseconds
RTPTimeOf(seconds, microseconds) == NearestDouble(seconds, microseconds)

\* (uint32_t)((m_t - (double)sec)*1e6): truncated
TruncMicroseconds(t) == (t.k * 15625) \div Pow2(t.p - 6)

\* RTPTime::GetNTPTime()
GetNTPTime(t) ==
  LET sec == t.sec
      microsec == TruncMicroseconds(t)
  IN [msw |-> Add32(sec, RTP_NTPTIMEOFFSET),
      lsw |-> (microsec * Pow2(26)) \div 15625]

\* RTPTime(RTPNTPTime ntptime)
RTPTimeOfNTP(n) ==
  IF Less32(n.msw, RTP_NTPTIMEOFFSET)
  THEN ZeroTime
  ELSE LET sec == Sub32(n.msw, RTP_NTPTIMEOFFSET)
           microsec == (n.lsw * 15625) \div Pow2(26)
       IN NearestDouble(sec, microsec)

\* RTPTime::GetSeconds()
GetSeconds(t) == t.sec

\* RTPTime::GetMicroSeconds(), m_t >= 0: (uint32_t)(1e6*(m_t - sec) + 0.5)
GetMicroSeconds(t) ==
  LET microsec == (2 * t.k * 15625 + Pow2(t.p - 6)) \div Pow2(t.p - 5)
  IN IF microsec >= 1000000 THEN 999999 ELSE microsec

\* the times converted: the seconds 2^30, today's, those around
\* 2^32 - 2208988800 and up to 2^31, with 0..MaxUsec microseconds
NtpSeconds ==
  {<<h, l>> : h \in {16384, 27359, 31829, 32767}, l \in {0, 33151, 33152, 65535}}
    \cup {<<32768, 0>>}

NoNTP == [msw |-> <<0, 0>>, lsw |-> 0]

NtpInit ==
  /\ ntpc = "time"
  /\ tin \in [sec : NtpSeconds, usec : 0..MaxUsec]
  /\ m_t = RTPTimeOf(tin.sec, tin.usec)
  /\ ntptime = NoNTP
  /\ tback = ZeroTime

NtpIdle ==
  /\ ntpc = "time"
  /\ tin = [sec |-> <<0, 0>>, usec |-> 0]
  /\ m_t = ZeroTime
  /\ ntptime = NoNTP
  /\ tback = ZeroTime

\* ntptime = t.GetNTPTime()
CallGetNTPTime ==
  /\ UNCHANGED NotNtp
  /\ ntpc = "time"
  /\ ntptime' = GetNTPTime(m_t)
  /\ ntpc' = "ntp"
  /\ UNCHANGED <<tin, m_t, tback>>

\* RTPTime back(ntptime)
CallRTPTimeOfNTP ==
  /\ UNCHANGED NotNtp
  /\ ntpc = "ntp"
  /\ tback' = RTPTimeOfNTP(ntptime)
  /\ ntpc' = "back"
  /\ UNCHANGED <<tin, m_t, ntptime>>

NtpNext == CallGetNTPTime \/ CallRTPTimeOfNTP

(***************************************************************************)
(* RTPTime::CurrentTime (src/src/rtptimeutilities.h, clock_gettime build). *)
(* Times are counted in ticks of 2^-23 s.  The realtime clock reads        *)
(* between 2^30 and 2^31 s, where doubles are 2 ticks apart; it is given   *)
(* relative to a multiple of 4 ticks in that range, so that a double is an *)
(* even number of ticks and its last bit is clear when the number is a     *)
(* multiple of 4.  The monotonic clock reads less than 2^21 s, where every *)
(* tick is a double, and so does every sum or difference below.            *)
(***************************************************************************)
\* the realtime reading that stands for the multiple of 4 ticks
ClockBase == 4 * MaxMono

RealtimeVals == ClockBase..(ClockBase + MaxClock)
MonoVals == 0..MaxMono

NoTime == 0 - 1

\* IEEE round-to-nearest, ties to even, of x ticks to a double near realtime
RoundToDouble(x) ==
  IF x % 2 = 0 THEN x
  ELSE IF (x - 1) % 4 = 0 THEN x - 1 ELSE x + 1

\* RTPTime_timespecToDouble of a realtime reading
RealtimeToDouble(x) == RoundToDouble(x)

\* if (!s_initialized), taken always
AlwaysFirstCall(initialized) == TRUE

\* if (!s_initialized)
IsFirstCall(initialized) == ~initialized

\* callers: 0 is the constructor of the global timeinit, the others threads
CThreads == 0..NThreads

CanRun(t) == t \in crun

\* if (!s_initialized)
CurrentTimeEnter(t) ==
  /\ UNCHANGED NotClock
  /\ CanRun(t)
  /\ cpc[t] = "idle"
  /\ cpc' = [cpc EXCEPT ![t] = IF IsFirstCall(s_initialized) THEN "first" ELSE "later"]
  /\ UNCHANGED <<realtime, monotonic, s_initialized, s_startOffet, tSys, tMono,
                 crun, cmode, cret, cprev, cfirst, realReads, offsetSets, usedUnset>>

\* s_initialized = true
CurrentTimeSetInitialized(t) ==
  /\ UNCHANGED NotClock
  /\ CanRun(t)
  /\ cpc[t] = "first"
  /\ s_initialized' = TRUE
  /\ cpc' = [cpc EXCEPT ![t] = "readsys"]
  /\ UNCHANGED <<realtime, monotonic, s_startOffet, tSys, tMono,
                 crun, cmode, cret, cprev, cfirst, realReads, offsetSets, usedUnset>>

\* clock_gettime(CLOCK_REALTIME, &tpSys)
CurrentTimeReadRealtime(t) ==
  /\ UNCHANGED NotClock
  /\ CanRun(t)
  /\ cpc[t] = "readsys"
  /\ tSys' = [tSys EXCEPT ![t] = RealtimeToDouble(realtime)]
  /\ realReads' = Min(realReads + 1, 2)
  /\ cpc' = [cpc EXCEPT ![t] = "readmono"]
  /\ UNCHANGED <<realtime, monotonic, s_initialized, s_startOffet, tMono,
                 crun, cmode, cret, cprev, cfirst, offsetSets, usedUnset>>

\* clock_gettime(CLOCK_MONOTONIC, &tpMono), first call
CurrentTimeReadMonotonicFirst(t) ==
  /\ UNCHANGED NotClock
  /\ CanRun(t)
  /\ cpc[t] = "readmono"
  /\ tMono' = [tMono EXCEPT ![t] = monotonic]
  /\ cpc' = [cpc EXCEPT ![t] = "store"]
  /\ UNCHANGED <<realtime, monotonic, s_initialized, s_startOffet, tSys,
                 crun, cmode, cret, cprev, cfirst, realReads, offsetSets, usedUnset>>

\* s_startOffet = tSys - tMono; return tSys.  When the constructor of
\* timeinit has returned, static initialization is over and threads run.
CurrentTimeStoreOffset(t) ==
  /\ UNCHANGED NotClock
  /\ CanRun(t)
  /\ cpc[t] = "store"
  /\ s_startOffet' = RoundToDouble(tSys[t] - tMono[t])
  /\ offsetSets' = Min(offsetSets + 1, 2)
  /\ cprev' = cret
  /\ cret' = tSys[t]
  /\ cfirst' = tSys[t]
  /\ cpc' = [cpc EXCEPT ![t] = "idle"]
  /\ crun' = IF cmode = "threads" /\ t = 0 THEN CThreads \ {0} ELSE crun
  /\ UNCHANGED <<realtime, monotonic, s_initialized, tSys, tMono, cmode,
                 realReads, usedUnset>>

\* clock_gettime(CLOCK_MONOTONIC, &tpMono), later call
CurrentTimeReadMonotonic(t) ==
  /\ UNCHANGED NotClock
  /\ CanRun(t)
  /\ cpc[t] = "later"
  /\ tMono' = [tMono EXCEPT ![t] = monotonic]
  /\ cpc' = [cpc EXCEPT ![t] = "add"]
  /\ UNCHANGED <<realtime, monotonic, s_initialized, s_startOffet, tSys,
                 crun, cmode, cret, cprev, cfirst, realReads, offsetSets, usedUnset>>

\* return tMono0 + s_startOffet
CurrentTimeReturnSum(t) ==
  /\ UNCHANGED NotClock
  /\ CanRun(t)
  /\ cpc[t] = "add"
  /\ cprev' = cret
  /\ cret' = RoundToDouble(tMono[t] + s_startOffet)
  /\ cfirst' = NoTime
  /\ usedUnset' = (usedUnset \/ offsetSets = 0)
  /\ cpc' = [cpc EXCEPT ![t] = "idle"]
  /\ UNCHANGED <<realtime, monotonic, s_initialized, s_startOffet, tSys, tMono,
                 crun, cmode, realReads, offsetSets>>

\* the realtime clock is set, backward or forward
RealtimeJump ==
  /\ UNCHANGED NotClock
  /\ \E x \in RealtimeVals : x # realtime /\ realtime' = x
  /\ UNCHANGED <<monotonic, s_initialized, s_startOffet, cpc, tSys, tMono,
                 crun, cmode, cret, cprev, cfirst, realReads, offsetSets, usedUnset>>

\* time passes on the monotonic clock
MonotonicAdvance ==
  /\ UNCHANGED NotClock
  /\ \E x \in MonoVals : x > monotonic /\ monotonic' = x
  /\ UNCHANGED <<realtime, s_initialized, s_startOffet, cpc, tSys, tMono,
                 crun, cmode, cret, cprev, cfirst, realReads, offsetSets, usedUnset>>

ClockStart(mode) ==
  /\ realtime \in RealtimeVals
  /\ monotonic \in MonoVals
  /\ s_initialized = FALSE
  /\ s_startOffet = 0
  /\ cpc = [t \in CThreads |-> "idle"]
  /\ tSys = [t \in CThreads |-> 0]
  /\ tMono = [t \in CThreads |-> 0]
  /\ crun = {0}
  /\ cmode = mode
  /\ cret = NoTime
  /\ cprev = NoTime
  /\ cfirst = NoTime
  /\ realReads = 0
  /\ offsetSets = 0
  /\ usedUnset = FALSE

ClockIdle ==
  /\ realtime = ClockBase
  /\ monotonic = 0
  /\ ClockStart("single")

ClockNext ==
  \/ \E t \in CThreads : CurrentTimeEnter(t)
  \/ \E t \in CThreads : CurrentTimeSetInitialized(t)
  \/ \E t \in CThreads : CurrentTimeReadRealtime(t)
  \/ \E t \in CThreads : CurrentTimeReadMonotonicFirst(t)
  \/ \E t \in CThreads : CurrentTimeStoreOffset(t)
  \/ \E t \in CThreads : CurrentTimeReadMonotonic(t)
  \/ \E t \in CThreads : CurrentTimeReturnSum(t)
  \/ RealtimeJump
  \/ MonotonicAdvance


(***************************************************************************)
(* RTPTime::Wait.  A delay is the double sec + k / 1024 seconds, held as   *)
(* <<sec, k>>; such a value is exact in a double, so is its fraction, and  *)
(* so is 1e9 times the fraction, 1953125 * k / 2 nanoseconds.  A timespec  *)
(* is <<tv_sec, tv_nsec>>.                                                 *)
(***************************************************************************)
NsPerSec == 1000000000

\* 1e9 / 1024 nanoseconds, doubled
HalfNsPerStep == 1953125

DelayVals == ((0 - 1)..MaxSec) \X (0..MaxFrac)

\* delay.m_t <= 0
NonPositive(d) == d[1] < 0 \/ (d[1] = 0 /\ d[2] = 0)

\* (uint64_t)delay.m_t
WaitSeconds(d) == d[1]

\* (uint32_t)(1e9*(delay.m_t-(double)sec)): the conversion drops the fraction
WaitNanoseconds(d) == (HalfNsPerStep * d[2]) \div 2

ZeroSpec == <<0, 0>>

SpecAdd(a, b) ==
  IF a[2] + b[2] >= NsPerSec THEN <<a[1] + b[1] + 1, a[2] + b[2] - NsPerSec>>
  ELSE <<a[1] + b[1], a[2] + b[2]>>

\* a - b for a >= b
SpecSub(a, b) ==
  IF a[2] < b[2] THEN <<a[1] - b[1] - 1, a[2] + NsPerSec - b[2]>>
  ELSE <<a[1] - b[1], a[2] - b[2]>>

SpecLeq(a, b) == a[1] < b[1] \/ (a[1] = b[1] /\ a[2] <= b[2])

\* the time slept t is at least the delay d
SleptAtLeast(t, d) ==
  t[1] > d[1] \/ (t[1] = d[1] /\ 2 * t[2] >= HalfNsPerStep * d[2])

\* what nanosleep may leave in rem when a signal ends it early: any time
\* from nothing to all of the request
RemVals(r) ==
  {x \in {ZeroSpec, <<0, 1>>, <<0, r[2] \div 2>>, <<r[1], 0>>, r} : SpecLeq(x, r)}

\* the timespec rem holds before nanosleep has written it
GarbageVals == {ZeroSpec, <<0, 7>>}

\* RTPTime::Wait(delay) is called
WaitCall ==
  /\ UNCHANGED NotSleep
  /\ slpc = "idle"
  /\ \E d \in DelayVals : delay' = d
  /\ \E g \in GarbageVals : rem' = g
  /\ req' = ZeroSpec
  /\ slept' = ZeroSpec
  /\ nsleeps' = 0
  /\ nintr' = 0
  /\ slpc' = "check"

\* if (delay.m_t <= 0) return;
WaitReturnAtOnce ==
  /\ UNCHANGED NotSleep
  /\ slpc = "check"
  /\ NonPositive(delay)
  /\ slpc' = "done"
  /\ UNCHANGED <<delay, req, rem, slept, nsleeps, nintr>>

\* req.tv_sec = (time_t)sec; req.tv_nsec = ((long)nanosec);
WaitConvert ==
  /\ UNCHANGED NotSleep
  /\ slpc = "check"
  /\ ~NonPositive(delay)
  /\ req' = <<WaitSeconds(delay), WaitNanoseconds(delay)>>
  /\ slpc' = "sleep"
  /\ UNCHANGED <<delay, rem, slept, nsleeps, nintr>>

\* ret = nanosleep(&req,&rem) returns 0 after the requested time, or a
\* little more; req = rem; the loop ends
NanosleepElapsed ==
  /\ UNCHANGED NotSleep
  /\ slpc = "sleep"
  /\ \E over \in 0..MaxOver : slept' = SpecAdd(slept, SpecAdd(req, <<0, over>>))
  /\ nsleeps' = nsleeps + 1
  /\ req' = rem
  /\ slpc' = "done"
  /\ UNCHANGED <<delay, rem, nintr>>

\* ret = nanosleep(&req,&rem) returns -1 with errno EINTR and the time not
\* slept in rem; req = rem; the loop goes round
NanosleepInterrupted ==
  /\ UNCHANGED NotSleep
  /\ slpc = "sleep"
  /\ nintr < MaxIntr
  /\ \E r \in RemVals(req) :
       /\ rem' = r
       /\ req' = r
       /\ slept' = SpecAdd(slept, SpecSub(req, r))
  /\ nsleeps' = nsleeps + 1
  /\ nintr' = nintr + 1
  /\ UNCHANGED <<delay, slpc>>

\* Wait has returned to its caller
WaitReturned ==
  /\ UNCHANGED NotSleep
  /\ slpc = "done"
  /\ slpc' = "idle"
  /\ UNCHANGED <<delay, req, rem, slept, nsleeps, nintr>>

SleepIdle ==
  /\ slpc = "idle"
  /\ delay = ZeroSpec
  /\ req = ZeroSpec
  /\ rem = ZeroSpec
  /\ slept = ZeroSpec
  /\ nsleeps = 0
  /\ nintr = 0

SleepNext ==
  \/ WaitCall
  \/ WaitReturnAtOnce
  \/ WaitConvert
  \/ NanosleepElapsed
  \/ NanosleepInterrupted
  \/ WaitReturned

(***************************************************************************)
(* RTPTCPTransmitter::Poll with NDests destinations, one calling thread.   *)
(* A peer sends the bytes of its stream and may shut its connection down   *)
(* at any point; a socket is then readable with no bytes to read.          *)
(***************************************************************************)
DDests == 1..NDests

NoRet == "none"
NoLast == [valid |-> FALSE, ready |-> {}, closed |-> {}, arrived |-> <<>>]

\* the next read of a socket that has no bytes left but whose peer has shut
\* down returns zero bytes: ConnectionClosed
CloseCheck(d, closed) ==
  IF d.status = "ok" /\ closed THEN [d EXCEPT !.status = "ConnectionClosed"] ELSE d

\* the OnReceiveError calls, in order, with the error that caused each
HookResult(s, hooks, d) ==
  IF d.status = "ok" THEN hooks ELSE Append(hooks, <<s, d.status>>)

PollOne(s, w, d) ==
  [st |-> PollResult(s, w.st, d), hooks |-> HookResult(s, w.hooks, d)]

\* the loop over the ready destinations of one Poll
RECURSIVE PollReady(_, _, _)
PollReady(todo, w, closed) ==
  IF Len(todo) = 0 THEN w
  ELSE PollReady(Tail(todo),
                 PollOne(Head(todo), w,
                         CloseCheck(DriveSocket(w.st.dest[Head(todo)],
                                                w.st.buf[Head(todo)], <<>>,
                                                m_maxPackSize),
                                    Head(todo) \in closed)),
                 closed)

\* TCP delivers the next k bytes of a peer's stream
PeerSends(s) ==
  /\ UNCHANGED NotPoll
  /\ s \notin pclosed
  /\ Len(wstream[s]) > 0
  /\ \E k \in 1..Len(wstream[s]) :
       /\ wbuf' = [wbuf EXCEPT ![s] = @ \o TakeN(wstream[s], k)]
       /\ wstream' = [wstream EXCEPT ![s] = DropN(@, k)]
  /\ UNCHANGED <<pipe, m_waitingForData, m_destSockets, wconsumed, m_rawpacketlist,
                 recvErrors, pollVars>>

\* the peer shuts its connection down, whatever it had left to send
PeerCloses(s) ==
  /\ UNCHANGED NotPoll
  /\ s \notin pclosed
  /\ pclosed' = pclosed \cup {s}
  /\ wstream' = [wstream EXCEPT ![s] = <<>>]
  /\ UNCHANGED <<pipe, m_waitingForData, m_destSockets, wbuf, wconsumed,
                 m_rawpacketlist, recvErrors, ppc, pflags, pret, phooks, plast>>

\* receive path steps 1 and 2: snapshot, waitingForData, MultiWait with a
\* zero duration
PollBegin ==
  /\ UNCHANGED NotPoll
  /\ ppc = "idle"
  /\ pflags' = {s \in DOMAIN m_destSockets : Len(wbuf[s]) > 0 \/ s \in pclosed}
  /\ m_waitingForData' = TRUE
  /\ pret' = NoRet
  /\ phooks' = <<>>
  /\ plast' = NoLast
  /\ ppc' = "woken"
  /\ UNCHANGED <<pipe, m_destSockets, wstream, wbuf, wconsumed, m_rawpacketlist,
                 recvErrors, pclosed>>

\* receive path steps 3 to 6: the ready destinations are processed, errors
\* go to OnReceiveError and remove the destination, Poll returns 0
PollEnd ==
  /\ UNCHANGED NotPoll
  /\ ppc = "woken"
  /\ LET ready == pflags \cap DOMAIN m_destSockets
         w == PollReady(SetToSeq(ready),
                        [st |-> [dest |-> m_destSockets, buf |-> wbuf,
                                 consumed |-> wconsumed,
                                 queue |-> m_rawpacketlist,
                                 errors |-> recvErrors],
                         hooks |-> <<>>],
                        pclosed)
     IN /\ m_destSockets' = w.st.dest
        /\ wbuf' = w.st.buf
        /\ wconsumed' = w.st.consumed
        /\ m_rawpacketlist' = w.st.queue
        /\ recvErrors' = w.st.errors
        /\ phooks' = w.hooks
        /\ plast' = [valid |-> TRUE, ready |-> ready, closed |-> pclosed,
                     arrived |-> [s \in DDests |-> wconsumed[s] \o wbuf[s]]]
  /\ m_waitingForData' = FALSE
  /\ pret' = RetOk
  /\ pflags' = {}
  /\ ppc' = "idle"
  /\ UNCHANGED <<pipe, wstream, pclosed>>

PollIdle ==
  /\ ppc = "idle"
  /\ pclosed = {}
  /\ pflags = {}
  /\ pret = NoRet
  /\ phooks = <<>>
  /\ plast = NoLast

\* after Create and AddDestination of NDests sockets
PollInit ==
  /\ PollIdle
  /\ wpc = [t \in AThreads |-> "idle"]
  /\ waitMutex = 0
  /\ m_waitingForData = FALSE
  /\ m_destSockets = [s \in DDests |-> SocketDataNew]
  /\ wstream \in [DDests -> WaitStreams]
  /\ wbuf = [s \in DDests |-> <<>>]
  /\ wconsumed = [s \in DDests |-> <<>>]
  /\ m_rawpacketlist = <<>>
  /\ m_tmpSocks = [t \in AThreads |-> {}]
  /\ m_tmpFlags = [t \in AThreads |-> NoFlags]
  /\ recvErrors = {}
  /\ abortedWait = FALSE
  /\ lastDone = NoDone

PollNext ==
  \/ \E s \in DDests : PeerSends(s)
  \/ \E s \in DDests : PeerCloses(s)
  \/ PollBegin
  \/ PollEnd

(***************************************************************************)
(* RTPTCPTransmitter::SendRTPData / SendRTCPData, both SendRTPRTCPData     *)
(* (spec 4.5, send path).  A write to a destination either succeeds or     *)
(* fails; a frame is lost to a destination when the write of its length    *)
(* prefix fails, or when that of its payload does.                         *)
(***************************************************************************)
MaxFrameLen == 65535

ERR_TOOLONG == "TooLong"
ERR_OVERSIZED == "Oversized"
ERR_SENDERROR == "SendError"

\* the lengths given to Send: those up to one over the largest maximum
\* packet size, the longest frame RFC 4571 can carry, and one more
SendLens == (0..(MaxPackSize + 1)) \cup {MaxFrameLen, MaxFrameLen + 1}

\* the payloads of length n that are written out in full
RECURSIVE Payloads(_)
Payloads(n) ==
  IF n = 0 THEN {<<>>}
  ELSE {Append(p, b) : p \in Payloads(n - 1), b \in ByteVals}

\* the data of a call: only a frame that passes the length checks is read
SendData(len) == IF len <= MaxPackSize THEN Payloads(len) ELSE {<<>>}

SendFailures == {"none", "prefix", "payload"}

\* the 2-byte big-endian length prefix
LengthPrefix(len) == <<(len \div 256) % 256, len % 256>>

\* the length checks made before any write
SendReject(len, maxPack) ==
  IF len > MaxFrameLen THEN ERR_TOOLONG
  ELSE IF len > maxPack THEN ERR_OVERSIZED
  ELSE RetOk

\* what reaches the socket: everything, nothing, or the prefix alone
Written(fail, len, data) ==
  CASE fail = "none" -> LengthPrefix(len) \o data
    [] fail = "prefix" -> <<>>
    [] OTHER -> LengthPrefix(len)

\* a send loop that gives up at the first failing destination
StopAfterFailure(fail, todo) == IF fail = "none" THEN Tail(todo) ELSE <<>>

\* after a destination, failed or not, the loop goes on to the next
NextDestinations(fail, todo) == Tail(todo)

\* the return code aggregates: success if any destination succeeded
SendReturnCode(ok) == IF ok > 0 THEN RetOk ELSE ERR_SENDERROR

\* SendRTPData(data, len) or SendRTCPData(data, len) is called
SendCall ==
  /\ UNCHANGED NotSend
  /\ sndpc = "idle"
  /\ \E len \in SendLens : \E data \in SendData(len) :
       /\ sndlen' = len
       /\ snddata' = data
  /\ sndfail' \in [DOMAIN m_destSockets -> SendFailures]
  /\ sndtodo' = <<>>
  /\ sndwire' = [s \in DOMAIN m_destSockets |-> <<>>]
  /\ sndhooks' = <<>>
  /\ sndok' = 0
  /\ sndret' = NoRet
  /\ sndpc' = "check"

\* a length over 65535 or over maxPackSize is rejected
SendRejected ==
  /\ UNCHANGED NotSend
  /\ sndpc = "check"
  /\ SendReject(sndlen, m_maxPackSize) # RetOk
  /\ sndret' = SendReject(sndlen, m_maxPackSize)
  /\ sndpc' = "done"
  /\ UNCHANGED <<sndlen, snddata, sndfail, sndtodo, sndwire, sndhooks, sndok>>

\* the loop over the destinations starts
SendAccepted ==
  /\ UNCHANGED NotSend
  /\ sndpc = "check"
  /\ SendReject(sndlen, m_maxPackSize) = RetOk
  /\ sndtodo' = SetToSeq(DOMAIN m_destSockets)
  /\ sndpc' = "loop"
  /\ UNCHANGED <<sndlen, snddata, sndfail, sndwire, sndhooks, sndok, sndret>>

\* one destination: the prefix and the payload are written; an error on
\* the socket calls OnSendError and the loop continues
SendToDestination ==
  /\ UNCHANGED NotSend
  /\ sndpc = "loop"
  /\ Len(sndtodo) > 0
  /\ sndwire' = [sndwire EXCEPT ![Head(sndtodo)] =
                   @ \o Written(sndfail[Head(sndtodo)], sndlen, snddata)]
  /\ sndhooks' = IF sndfail[Head(sndtodo)] = "none" THEN sndhooks
                 ELSE Append(sndhooks, Head(sndtodo))
  /\ sndok' = IF sndfail[Head(sndtodo)] = "none" THEN sndok + 1 ELSE sndok
  /\ sndtodo' = NextDestinations(sndfail[Head(sndtodo)], sndtodo)
  /\ UNCHANGED <<sndpc, sndlen, snddata, sndfail, sndret>>

\* the loop is over: the aggregate return code
SendReturn ==
  /\ UNCHANGED NotSend
  /\ sndpc = "loop"
  /\ Len(sndtodo) = 0
  /\ sndret' = SendReturnCode(sndok)
  /\ sndpc' = "done"
  /\ UNCHANGED <<sndlen, snddata, sndfail, sndtodo, sndwire, sndhooks, sndok>>

\* the caller has the return code
SendReturned ==
  /\ UNCHANGED NotSend
  /\ sndpc = "done"
  /\ sndpc' = "idle"
  /\ UNCHANGED <<sndlen, snddata, sndfail, sndtodo, sndwire, sndhooks, sndok,
                 sndret>>

SendIdle ==
  /\ sndpc = "idle"
  /\ sndlen = 0
  /\ snddata = <<>>
  /\ sndfail = <<>>
  /\ sndtodo = <<>>
  /\ sndwire = <<>>
  /\ sndhooks = <<>>
  /\ sndok = 0
  /\ sndret = NoRet

\* after Create and AddDestination of some of the sockets, or of none
SendInit ==
  /\ SendIdle
  /\ wpc = [t \in AThreads |-> "idle"]
  /\ waitMutex = 0
  /\ m_waitingForData = FALSE
  /\ \E D \in SUBSET DDests : m_destSockets = [s \in D |-> SocketDataNew]
  /\ wstream = [s \in DSocks |-> <<>>]
  /\ wbuf = [s \in DSocks |-> <<>>]
  /\ wconsumed = [s \in DSocks |-> <<>>]
  /\ m_rawpacketlist = <<>>
  /\ m_tmpSocks = [t \in AThreads |-> {}]
  /\ m_tmpFlags = [t \in AThreads |-> NoFlags]
  /\ recvErrors = {}
  /\ abortedWait = FALSE
  /\ lastDone = NoDone

SendNext ==
  \/ SendCall
  \/ SendRejected
  \/ SendAccepted
  \/ SendToDestination
  \/ SendReturn
  \/ SendReturned

(***************************************************************************)
(* The mutexes of a thread-safe RTPTCPTransmitter (spec 5): m_mainMutex    *)
(* protects the destination set and m_waitingForData, m_waitMutex is held  *)
(* for the wait itself.  Threads call Poll / WaitForIncomingData,          *)
(* AbortWait, AddDestination and DeleteDestination; taking a mutex is a    *)
(* step of its own, which waits until the mutex is free.                   *)
(***************************************************************************)
MutexOps == {"wait", "abort", "add", "del"}

NoThread == 0
NoCall == "none"

\* a waiting thread that keeps m_mainMutex across MultiWait
MainKeptAcrossWait(t) == t

\* the main mutex is released for the duration of the wait
MainAcrossWait(t) == NoThread

\* the threads blocked in MultiWait
Waiters == {t \in AThreads : mpc[t] = "multiwait"}

\* a call of another thread has completed: noted while a wait is pending
DoneDuringWait(t) == IF Waiters \ {t} # {} THEN mdone \cup {mop[t]} ELSE mdone

\* a thread calls one of the operations
MutexCall(t) ==
  /\ UNCHANGED NotMutex
  /\ mpc[t] = "idle"
  /\ \E op \in MutexOps : mop' = [mop EXCEPT ![t] = op]
  /\ mpc' = [mpc EXCEPT ![t] = "lock"]
  /\ UNCHANGED <<pipe, waitMutex, m_waitingForData, m_destSockets, m_mainMutex,
                 mdone>>

\* m_mainMutex.Lock() at the start of every operation
LockMain(t) ==
  /\ UNCHANGED NotMutex
  /\ mpc[t] = "lock"
  /\ m_mainMutex = NoThread
  /\ m_mainMutex' = t
  /\ mpc' = [mpc EXCEPT ![t] = "crit"]
  /\ UNCHANGED <<pipe, waitMutex, m_waitingForData, m_destSockets, mop,
                 mdone>>

\* receive path step 1: waitingForData is set and m_mainMutex released
WaitRelease(t) ==
  /\ UNCHANGED NotMutex
  /\ mop[t] = "wait"
  /\ mpc[t] = "crit"
  /\ m_waitingForData' = TRUE
  /\ m_mainMutex' = MainAcrossWait(t)
  /\ mpc' = [mpc EXCEPT ![t] = "lockwait"]
  /\ UNCHANGED <<pipe, waitMutex, m_destSockets, mop, mdone>>

\* m_waitMutex.Lock(); the thread then blocks in MultiWait
LockWait(t) ==
  /\ UNCHANGED NotMutex
  /\ mpc[t] = "lockwait"
  /\ waitMutex = NoThread
  /\ waitMutex' = t
  /\ mdone' = {}
  /\ mpc' = [mpc EXCEPT ![t] = "multiwait"]
  /\ UNCHANGED <<pipe, m_waitingForData, m_destSockets, mop, m_mainMutex>>

\* MultiWait returns: a socket or the abort channel is readable, or the
\* delay has elapsed
MultiWaitReturns(t) ==
  /\ UNCHANGED NotMutex
  /\ mpc[t] = "multiwait"
  /\ mpc' = [mpc EXCEPT ![t] = "relock"]
  /\ mdone' = {}
  /\ UNCHANGED <<pipe, waitMutex, m_waitingForData, m_destSockets, mop,
                 m_mainMutex>>

\* m_mainMutex.Lock() on wake
RelockMain(t) ==
  /\ UNCHANGED NotMutex
  /\ mpc[t] = "relock"
  /\ m_mainMutex = NoThread
  /\ m_mainMutex' = t
  /\ mpc' = [mpc EXCEPT ![t] = "process"]
  /\ UNCHANGED <<pipe, waitMutex, m_waitingForData, m_destSockets, mop,
                 mdone>>

\* receive path steps 3 to 6, then both mutexes are released
WaitFinish(t) ==
  /\ UNCHANGED NotMutex
  /\ mpc[t] = "process"
  /\ m_waitingForData' = FALSE
  /\ m_mainMutex' = NoThread
  /\ waitMutex' = NoThread
  /\ mpc' = [mpc EXCEPT ![t] = "idle"]
  /\ mop' = [mop EXCEPT ![t] = NoCall]
  /\ UNCHANGED <<pipe, m_destSockets, mdone>>

\* AbortWait under m_mainMutex: if waitingForData, the abort channel is
\* signalled, which takes no mutex and does not block
AbortWaitLocked(t) ==
  /\ UNCHANGED NotMutex
  /\ mop[t] = "abort"
  /\ mpc[t] = "crit"
  /\ m_mainMutex' = NoThread
  /\ mdone' = DoneDuringWait(t)
  /\ mpc' = [mpc EXCEPT ![t] = "idle"]
  /\ mop' = [mop EXCEPT ![t] = NoCall]
  /\ UNCHANGED <<pipe, waitMutex, m_waitingForData, m_destSockets>>

\* AddDestination(a) under m_mainMutex: AlreadyPresent leaves the set alone
AddDestination(t) ==
  /\ UNCHANGED NotMutex
  /\ mop[t] = "add"
  /\ mpc[t] = "crit"
  /\ \E a \in DDests :
       m_destSockets' =
         IF a \in DOMAIN m_destSockets THEN m_destSockets
         ELSE [s \in (DOMAIN m_destSockets) \cup {a} |->
                 IF s = a THEN SocketDataNew ELSE m_destSockets[s]]
  /\ m_mainMutex' = NoThread
  /\ mdone' = DoneDuringWait(t)
  /\ mpc' = [mpc EXCEPT ![t] = "idle"]
  /\ mop' = [mop EXCEPT ![t] = NoCall]
  /\ UNCHANGED <<pipe, waitMutex, m_waitingForData>>

\* DeleteDestination(a) under m_mainMutex: NotFound leaves the set alone
DeleteDestination(t) ==
  /\ UNCHANGED NotMutex
  /\ mop[t] = "del"
  /\ mpc[t] = "crit"
  /\ \E a \in DDests :
       m_destSockets' = [s \in (DOMAIN m_destSockets) \ {a} |-> m_destSockets[s]]
  /\ m_mainMutex' = NoThread
  /\ mdone' = DoneDuringWait(t)
  /\ mpc' = [mpc EXCEPT ![t] = "idle"]
  /\ mop' = [mop EXCEPT ![t] = NoCall]
  /\ UNCHANGED <<pipe, waitMutex, m_waitingForData>>

MutexIdle ==
  /\ mop = [t \in AThreads |-> NoCall]
  /\ mpc = [t \in AThreads |-> "idle"]
  /\ m_mainMutex = NoThread
  /\ mdone = {}

\* after Init(threadsafe = true) and Create; no destination yet
MutexInit ==
  /\ MutexIdle
  /\ WaitIdle

MutexNext ==
  \/ \E t \in AThreads : MutexCall(t)
  \/ \E t \in AThreads : LockMain(t)
  \/ \E t \in AThreads : WaitRelease(t)
  \/ \E t \in AThreads : LockWait(t)
  \/ \E t \in AThreads : MultiWaitReturns(t)
  \/ \E t \in AThreads : RelockMain(t)
  \/ \E t \in AThreads : WaitFinish(t)
  \/ \E t \in AThreads : AbortWaitLocked(t)
  \/ \E t \in AThreads : AddDestination(t)
  \/ \E t \in AThreads : DeleteDestination(t)

\* every step of a thread but the return of MultiWait, which may stay
\* pending for as long as the delay allows
MutexProgress(t) ==
  \/ LockMain(t)
  \/ WaitRelease(t)
  \/ LockWait(t)
  \/ RelockMain(t)
  \/ WaitFinish(t)
  \/ AbortWaitLocked(t)
  \/ AddDestination(t)
  \/ DeleteDestination(t)

(***************************************************************************)
(* RTPTCPTransmitter::Create and Destroy and the abort channel (spec 4.5   *)
(* lifecycle, spec 6).  The caller may hand Create a channel of its own    *)
(* through RTPTCPTransmissionParams::SetCreatedAbortDescriptors; it has    *)
(* initialized that channel and goes on signalling and clearing it.        *)
(***************************************************************************)
ERR_ALREADYCREATED == "AlreadyCreated"
ERR_CANTCREATEABORTCHANNEL == "CantCreateAbortChannel"

\* RTPTCPTransmissionParams::GetCreatedAbortDescriptors(): null, or the
\* caller's channel
ParamChannels == {"null", "external"}

\* the caller's channel, initialized on the first two handles
ExtChannel == [m_init |-> TRUE, m_descriptors |-> <<1, 2>>]

NoCallYet == [op |-> "none", ret |-> RetOk, params |-> "null", created |-> FALSE,
              abortDesc |-> AbortDescNew, fds |-> {}]

TrRec(op, ret, params) ==
  [op |-> op, ret |-> ret, params |-> params, created |-> m_created,
   abortDesc |-> m_abortDesc, fds |-> trFds]

\* a Destroy that destroys whichever channel the transmitter uses
DestroysUsedChannel(p) == p # "null"

\* Destroy destroys the abort channel only if it is the owned one
DestroysChannel(p) == p = "owned"

\* Create(maxpacksize, params) on an initialized transmitter
Create ==
  /\ UNCHANGED NotCreate
  /\ \E params \in ParamChannels : \E fail \in InitFailures("unix") :
       LET r == InitUnix(m_abortDesc, trFds, fail)
       IN IF m_created
          THEN /\ trLast' = TrRec("Create", ERR_ALREADYCREATED, params)
               /\ UNCHANGED <<m_created, m_abortDesc, m_pAbortDesc, trFds>>
          ELSE IF params = "external"
          THEN /\ m_pAbortDesc' = "external"
               /\ m_created' = TRUE
               /\ trLast' = TrRec("Create", RetOk, params)
               /\ UNCHANGED <<m_abortDesc, trFds>>
          ELSE IF r.ret # RetOk
          THEN /\ trLast' = TrRec("Create", ERR_CANTCREATEABORTCHANNEL, params)
               /\ UNCHANGED <<m_created, m_abortDesc, m_pAbortDesc, trFds>>
          ELSE /\ m_abortDesc' = r.ch
               /\ trFds' = trFds \cup SeqSet(r.opened)
               /\ m_pAbortDesc' = "owned"
               /\ m_created' = TRUE
               /\ trLast' = TrRec("Create", RetOk, params)
  /\ UNCHANGED <<extDesc, extPipe, extTouched>>

\* Destroy(): nothing if not created; else the owned abort channel is
\* destroyed, an injected one left alone
Destroy ==
  /\ UNCHANGED NotCreate
  /\ IF ~m_created
     THEN UNCHANGED <<m_created, m_abortDesc, m_pAbortDesc, extDesc, extPipe,
                      trFds, extTouched>>
     ELSE /\ m_created' = FALSE
          /\ m_pAbortDesc' = "null"
          /\ IF ~DestroysChannel(m_pAbortDesc)
             THEN UNCHANGED <<m_abortDesc, extDesc, extPipe, trFds, extTouched>>
             ELSE IF m_pAbortDesc = "owned"
             THEN /\ m_abortDesc' = DestroyResult(m_abortDesc).ch
                  /\ trFds' = trFds \ SeqSet(DestroyResult(m_abortDesc).closed)
                  /\ UNCHANGED <<extDesc, extPipe, extTouched>>
             ELSE /\ extDesc' = DestroyResult(extDesc).ch
                  /\ trFds' = trFds \ SeqSet(DestroyResult(extDesc).closed)
                  /\ extPipe' = 0
                  /\ extTouched' = TRUE
                  /\ UNCHANGED m_abortDesc
  /\ trLast' = TrRec("Destroy", RetOk, "null")

\* the caller signals its channel: SendAbortSignal, which needs it
\* initialized and its write end open
ExtSignal ==
  /\ UNCHANGED NotCreate
  /\ extDesc.m_init
  /\ extDesc.m_descriptors[2] \in trFds
  /\ extPipe < PipeCap
  /\ extPipe' = WriteByte(extPipe)
  /\ UNCHANGED <<m_created, m_abortDesc, m_pAbortDesc, extDesc, trFds, extTouched,
                 trLast>>

\* the caller clears its channel: ClearAbortSignal by the only reader
ExtClear ==
  /\ UNCHANGED NotCreate
  /\ extDesc.m_init
  /\ extDesc.m_descriptors[1] \in trFds
  /\ extPipe > 0
  /\ extPipe' = DrainAll(extPipe)
  /\ UNCHANGED <<m_created, m_abortDesc, m_pAbortDesc, extDesc, trFds, extTouched,
                 trLast>>

\* the process opens or closes a handle of its own, which is not a channel's
OtherHandle ==
  /\ UNCHANGED NotCreate
  /\ \E f \in 1..MaxFd :
       /\ f \notin SeqSet(extDesc.m_descriptors)
       /\ f \notin SeqSet(m_abortDesc.m_descriptors)
       /\ trFds' = IF f \in trFds THEN trFds \ {f} ELSE trFds \cup {f}
  /\ UNCHANGED <<m_created, m_abortDesc, m_pAbortDesc, extDesc, extPipe,
                 extTouched, trLast>>

CreateIdle ==
  /\ m_created = FALSE
  /\ m_abortDesc = AbortDescNew
  /\ m_pAbortDesc = "null"
  /\ extDesc = ExtChannel
  /\ extPipe = 0
  /\ trFds = {1, 2}
  /\ extTouched = FALSE
  /\ trLast = NoCallYet

CreateNext ==
  \/ Create
  \/ Destroy
  \/ ExtSignal
  \/ ExtClear
  \/ OtherHandle

(***************************************************************************)
(* RTPKeyHashTable (src/src/rtpkeyhashtable.h).  A HashElement pointer is  *)
(* a slot number of the memory, 0 being the null pointer.  The memory      *)
(* keeps what a slot held when its element is deleted, unless it is        *)
(* overwritten; a pointer to a slot that holds no element reads what the   *)
(* memory holds there.                                                     *)
(***************************************************************************)
Null == 0

Nodes == 1..MaxNodes
Keys == 1..MaxKey
Buckets == 0..(HashSize - 1)

ERR_KEYALREADYEXISTS == "ERR_RTP_KEYHASHTABLE_KEYALREADYEXISTS"
ERR_KEYNOTFOUND == "ERR_RTP_KEYHASHTABLE_KEYNOTFOUND"
ERR_NOCURRENTELEMENT == "ERR_RTP_KEYHASHTABLE_NOCURRENTELEMENT"
ERR_INVALIDHASHINDEX == "ERR_RTP_KEYHASHTABLE_FUNCTIONRETURNEDINVALIDHASHINDEX"
ERR_OUTOFMEM == "ERR_RTP_OUTOFMEM"

\* GetIndex::GetIndex(k), the hash function the table is instantiated
\* with: here one that can return hashsize, which is no bucket
GetIndex(k) == k % (HashSize + 1)

\* HashElement(k, e, index): all four links null
HashElement(k, index) ==
  [key |-> k, hashindex |-> index, hashprev |-> Null, hashnext |-> Null,
   listprev |-> Null, listnext |-> Null]

\* memory never written
ZeroElement == HashElement(0, 0)

\* the table object: its members and the memory
TableState ==
  [table |-> table, first |-> firsthashelem, last |-> lasthashelem,
   cur |-> curhashelem, heap |-> heap, allocated |-> allocated, bad |-> badFree]

\* while(!found && e != 0) { if (e->GetKey() == k) found = true; else
\* e = e->hashnext; }: the element found, or null
RECURSIVE FindInBucket(_, _, _, _)
FindInBucket(hp, e, k, fuel) ==
  IF e = Null \/ fuel = 0 THEN Null
  ELSE IF hp[e].key = k THEN e
  ELSE FindInBucket(hp, hp[e].hashnext, k, fuel - 1)

\* bool HasElement(const Key &k)
HasElement(h, k) ==
  IF GetIndex(k) >= HashSize THEN FALSE
  ELSE FindInBucket(h.heap, h.table[GetIndex(k)], k, MaxNodes + 1) # Null

\* int GotoElement(const Key &k)
GotoElement(h, k) ==
  IF GetIndex(k) >= HashSize
  THEN [h |-> h, ret |-> ERR_INVALIDHASHINDEX]
  ELSE [h |-> [h EXCEPT !.cur = FindInBucket(h.heap, h.table[GetIndex(k)], k,
                                             MaxNodes + 1)],
        ret |-> IF FindInBucket(h.heap, h.table[GetIndex(k)], k, MaxNodes + 1)
                   = Null
                THEN ERR_KEYNOTFOUND ELSE RetOk]

\* p->hashprev = v, if p is not null
SetHashPrev(hp, p, v) == IF p = Null THEN hp ELSE [hp EXCEPT ![p].hashprev = v]
SetHashNext(hp, p, v) == IF p = Null THEN hp ELSE [hp EXCEPT ![p].hashnext = v]
SetListPrev(hp, p, v) == IF p = Null THEN hp ELSE [hp EXCEPT ![p].listprev = v]
SetListNext(hp, p, v) == IF p = Null THEN hp ELSE [hp EXCEPT ![p].listnext = v]

\* DeleteCurrentElement, first part: relink elements in current hash bucket
UnlinkBucket(h) ==
  LET c == h.cur
      index == h.heap[c].hashindex
      tmp1 == h.heap[c].hashprev
      tmp2 == h.heap[c].hashnext
  IN IF tmp1 = Null
     THEN [h EXCEPT !.table = [h.table EXCEPT ![index] = tmp2],
                    !.heap = SetHashPrev(h.heap, tmp2, Null)]
     ELSE [h EXCEPT !.heap = SetHashPrev(SetHashNext(h.heap, tmp1, tmp2),
                                         tmp2, tmp1)]

\* DeleteCurrentElement, second part: relink elements in list
UnlinkList(h) ==
  LET c == h.cur
      tmp1 == h.heap[c].listprev
      tmp2 == h.heap[c].listnext
  IN IF tmp1 = Null
     THEN [h EXCEPT !.first = tmp2,
                    !.last = IF tmp2 = Null THEN Null ELSE h.last,
                    !.heap = SetListPrev(h.heap, tmp2, Null)]
     ELSE [h EXCEPT !.last = IF tmp2 = Null THEN tmp1 ELSE h.last,
                    !.heap = SetListPrev(SetListNext(h.heap, tmp1, tmp2),
                                         tmp2, tmp1)]

\* RTPDelete(p): the slot holds no element any more; deleting what is no
\* element is noted
Delete(h, p) ==
  [h EXCEPT !.allocated = h.allocated \ {p},
            !.bad = h.bad \/ p \notin h.allocated]

\* a DeleteCurrentElement that leaves no current element
DeleteAndReset(h, c, tmp2) == [Delete(h, c) EXCEPT !.cur = Null]

\* DeleteCurrentElement, last part: RTPDelete(curhashelem); curhashelem = tmp2
DeleteAndAdvance(h, c, tmp2) == [Delete(h, c) EXCEPT !.cur = tmp2]

\* int DeleteCurrentElement()
DeleteCurrentElement(h) ==
  IF h.cur = Null
  THEN [h |-> h, ret |-> ERR_NOCURRENTELEMENT]
  ELSE [h |-> DeleteAndAdvance(UnlinkList(UnlinkBucket(h)), h.cur,
                               UnlinkBucket(h).heap[h.cur].listnext),
        ret |-> RetOk]

\* int DeleteElement(const Key &k)
DeleteElement(h, k) ==
  IF GotoElement(h, k).ret # RetOk
  THEN GotoElement(h, k)
  ELSE DeleteCurrentElement(GotoElement(h, k).h)

\* the elements Clear walks over: firsthashelem and on through listnext
RECURSIVE ListFrom(_, _, _)
ListFrom(hp, p, fuel) ==
  IF p = Null \/ fuel = 0 THEN <<>>
  ELSE <<p>> \o ListFrom(hp, hp[p].listnext, fuel - 1)

RECURSIVE DeleteAll(_, _)
DeleteAll(h, ps) ==
  IF Len(ps) = 0 THEN h ELSE DeleteAll(Delete(h, Head(ps)), Tail(ps))

\* a Clear that also forgets the current element
ClearResetsCurrent(h) ==
  [DeleteAll(h, ListFrom(h.heap, h.first, MaxNodes + 1))
     EXCEPT !.table = [i \in Buckets |-> Null],
            !.first = Null,
            !.last = Null,
            !.cur = Null]

\* void Clear(): curhashelem is left as it is
Clear(h) ==
  [DeleteAll(h, ListFrom(h.heap, h.first, MaxNodes + 1))
     EXCEPT !.table = [i \in Buckets |-> Null],
            !.first = Null,
            !.last = Null]

\* AddElement, the insertion of newelem at the head of its bucket and at
\* the end of the list
LinkNew(h, k, index, newelem) ==
  LET e == h.table[index]
      hp1 == [h.heap EXCEPT ![newelem] = [HashElement(k, index) EXCEPT !.hashnext = e]]
      hp2 == SetHashPrev(hp1, e, newelem)
  IN IF h.first = Null
     THEN [h EXCEPT !.table = [h.table EXCEPT ![index] = newelem],
                    !.heap = hp2,
                    !.first = newelem,
                    !.last = newelem,
                    !.allocated = h.allocated \cup {newelem}]
     ELSE [h EXCEPT !.table = [h.table EXCEPT ![index] = newelem],
                    !.heap = [SetListNext(hp2, h.last, newelem)
                                EXCEPT ![newelem].listprev = h.last],
                    !.last = newelem,
                    !.allocated = h.allocated \cup {newelem}]

\* int AddElement(const Key &k, const Element &elem); newelem is what RTPNew
\* returns, null when there is no memory
AddElement(h, k, newelem) ==
  IF GetIndex(k) >= HashSize
  THEN [h |-> h, ret |-> ERR_INVALIDHASHINDEX]
  ELSE IF HasElement(h, k)
  THEN [h |-> h, ret |-> ERR_KEYALREADYEXISTS]
  ELSE IF newelem = Null
  THEN [h |-> h, ret |-> ERR_OUTOFMEM]
  ELSE [h |-> LinkNew(h, k, GetIndex(k), newelem), ret |-> RetOk]

\* RTPNew: the allocator hands out the free block of lowest address, or
\* null when there is none
FreeSlots(h) == Nodes \ h.allocated
NewSlots(h) ==
  IF FreeSlots(h) = {} THEN {Null}
  ELSE {CHOOSE n \in FreeSlots(h) : \A m \in FreeSlots(h) : n <= m}

\* the members take the values of a table object
SetTable(h) ==
  /\ table' = h.table
  /\ firsthashelem' = h.first
  /\ lasthashelem' = h.last
  /\ curhashelem' = h.cur
  /\ heap' = h.heap
  /\ allocated' = h.allocated
  /\ badFree' = h.bad

Remove(q, k) == SelectSeq(q, LAMBDA x : x # k)

OpDone(op, k, ret, h) ==
  hlast' = [op |-> op, key |-> k, ret |-> ret,
            had |-> k \in SeqSet(contents),
            same |-> h = TableState]

\* the behaviour of the table is followed up to the first delete of memory
\* that holds no element: nothing is defined after it
Defined == ~badFree

HashAddElement(k) ==
  /\ Defined
  /\ lpc = "idle"
  /\ UNCHANGED NotHash
  /\ \E n \in NewSlots(TableState) :
       /\ SetTable(AddElement(TableState, k, n).h)
       /\ contents' = IF AddElement(TableState, k, n).ret = RetOk
                      THEN Append(contents, k) ELSE contents
       /\ OpDone("AddElement", k, AddElement(TableState, k, n).ret,
                 AddElement(TableState, k, n).h)

HashDeleteElement(k) ==
  /\ Defined
  /\ lpc = "idle"
  /\ UNCHANGED NotHash
  /\ SetTable(DeleteElement(TableState, k).h)
  /\ contents' = IF DeleteElement(TableState, k).ret = RetOk
                 THEN Remove(contents, k) ELSE contents
  /\ OpDone("DeleteElement", k, DeleteElement(TableState, k).ret,
            DeleteElement(TableState, k).h)

\* the current element is taken out if there is one: a pointer to memory
\* that holds no element takes nothing out of the table
HashDeleteCurrentElement ==
  /\ Defined
  /\ lpc = "idle"
  /\ UNCHANGED NotHash
  /\ SetTable(DeleteCurrentElement(TableState).h)
  /\ contents' = IF curhashelem \in allocated
                 THEN Remove(contents, heap[curhashelem].key) ELSE contents
  /\ OpDone("DeleteCurrentElement", 0, DeleteCurrentElement(TableState).ret,
            DeleteCurrentElement(TableState).h)

HashClear ==
  /\ Defined
  /\ lpc = "idle"
  /\ UNCHANGED NotHash
  /\ SetTable(Clear(TableState))
  /\ contents' = <<>>
  /\ OpDone("Clear", 0, RetOk, Clear(TableState))

\* int GotoElement(const Key &k)
HashGotoElement(k) ==
  /\ Defined
  /\ lpc = "idle"
  /\ UNCHANGED NotHash
  /\ curhashelem' = GotoElement(TableState, k).h.cur
  /\ OpDone("GotoElement", k, GotoElement(TableState, k).ret, TableState)
  /\ UNCHANGED <<table, firsthashelem, lasthashelem, heap, allocated, badFree,
                 contents>>

\* void GotoFirstElement() { curhashelem = firsthashelem; }
HashGotoFirstElement ==
  /\ Defined
  /\ lpc = "idle"
  /\ UNCHANGED NotHash
  /\ curhashelem' = firsthashelem
  /\ OpDone("GotoFirstElement", 0, RetOk, TableState)
  /\ UNCHANGED <<table, firsthashelem, lasthashelem, heap, allocated, badFree,
                 contents>>

\* void GotoLastElement() { curhashelem = lasthashelem; }
HashGotoLastElement ==
  /\ Defined
  /\ lpc = "idle"
  /\ UNCHANGED NotHash
  /\ curhashelem' = lasthashelem
  /\ OpDone("GotoLastElement", 0, RetOk, TableState)
  /\ UNCHANGED <<table, firsthashelem, lasthashelem, heap, allocated, badFree,
                 contents>>

\* if (curhashelem) curhashelem = curhashelem->listnext;
HashGotoNextElement ==
  /\ Defined
  /\ lpc = "idle"
  /\ UNCHANGED NotHash
  /\ curhashelem' = IF curhashelem = Null THEN Null ELSE heap[curhashelem].listnext
  /\ OpDone("GotoNextElement", 0, RetOk, TableState)
  /\ UNCHANGED <<table, firsthashelem, lasthashelem, heap, allocated, badFree,
                 contents>>

\* if (curhashelem) curhashelem = curhashelem->listprev;
HashGotoPreviousElement ==
  /\ Defined
  /\ lpc = "idle"
  /\ UNCHANGED NotHash
  /\ curhashelem' = IF curhashelem = Null THEN Null ELSE heap[curhashelem].listprev
  /\ OpDone("GotoPreviousElement", 0, RetOk, TableState)
  /\ UNCHANGED <<table, firsthashelem, lasthashelem, heap, allocated, badFree,
                 contents>>

NoHashOp == [op |-> "none", key |-> 0, ret |-> RetOk, had |-> FALSE, same |-> TRUE]

\* RTPKeyHashTable(): the buckets and both ends of the list are null;
\* curhashelem is not assigned
HashNew ==
  /\ table = [i \in Buckets |-> Null]
  /\ firsthashelem = Null
  /\ lasthashelem = Null
  /\ curhashelem \in {Null} \cup Nodes
  /\ heap = [n \in Nodes |-> ZeroElement]
  /\ allocated = {}
  /\ badFree = FALSE
  /\ contents = <<>>
  /\ hlast = NoHashOp

HashIdle ==
  /\ HashNew
  /\ curhashelem = Null

HashNext ==
  \/ \E k \in Keys : HashAddElement(k)
  \/ \E k \in Keys : HashDeleteElement(k)
  \/ HashDeleteCurrentElement
  \/ HashClear
  \/ \E k \in Keys : HashGotoElement(k)
  \/ HashGotoFirstElement
  \/ HashGotoLastElement
  \/ HashGotoNextElement
  \/ HashGotoPreviousElement

(***************************************************************************)
(* A loop over the table, as its users write it:                           *)
(*   GotoFirstElement();                                                   *)
(*   while (HasCurrentElement())                                           *)
(*     { GetCurrentKey(); DeleteCurrentElement() or GotoNextElement(); }   *)
(***************************************************************************)
LoopIdle ==
  /\ lpc = "idle"
  /\ visited = <<>>
  /\ atstart = <<>>

\* GotoFirstElement(), the loop's start
LoopBegin ==
  /\ Defined
  /\ lpc = "idle"
  /\ UNCHANGED NotLoop
  /\ curhashelem' = firsthashelem
  /\ OpDone("GotoFirstElement", 0, RetOk, TableState)
  /\ UNCHANGED <<table, firsthashelem, lasthashelem, heap, allocated, badFree,
                 contents>>
  /\ lpc' = "loop"
  /\ visited' = <<>>
  /\ atstart' = contents

\* HasCurrentElement() is true: GetCurrentKey(), then DeleteCurrentElement()
LoopDeleteCurrentElement ==
  /\ Defined
  /\ lpc = "loop"
  /\ curhashelem # Null
  /\ UNCHANGED NotLoop
  /\ visited' = Append(visited, heap[curhashelem].key)
  /\ SetTable(DeleteCurrentElement(TableState).h)
  /\ contents' = IF curhashelem \in allocated
                 THEN Remove(contents, heap[curhashelem].key) ELSE contents
  /\ OpDone("DeleteCurrentElement", 0, DeleteCurrentElement(TableState).ret,
            DeleteCurrentElement(TableState).h)
  /\ UNCHANGED <<lpc, atstart>>

\* HasCurrentElement() is true: GetCurrentKey(), then GotoNextElement()
LoopGotoNextElement ==
  /\ Defined
  /\ lpc = "loop"
  /\ curhashelem # Null
  /\ UNCHANGED NotLoop
  /\ visited' = Append(visited, heap[curhashelem].key)
  /\ curhashelem' = heap[curhashelem].listnext
  /\ OpDone("GotoNextElement", 0, RetOk, TableState)
  /\ UNCHANGED <<table, firsthashelem, lasthashelem, heap, allocated, badFree,
                 contents>>
  /\ UNCHANGED <<lpc, atstart>>

\* HasCurrentElement() is false: the loop is left
LoopEnd ==
  /\ lpc = "loop"
  /\ curhashelem = Null
  /\ UNCHANGED NotLoop
  /\ UNCHANGED hashVars
  /\ lpc' = "idle"
  /\ visited' = <<>>
  /\ atstart' = <<>>

HashLoopNext ==
  \/ \E k \in Keys : HashAddElement(k)
  \/ \E k \in Keys : HashDeleteElement(k)
  \/ HashDeleteCurrentElement
  \/ HashClear
  \/ \E k \in Keys : HashGotoElement(k)
  \/ HashGotoFirstElement
  \/ HashGotoLastElement
  \/ HashGotoNextElement
  \/ HashGotoPreviousElement
  \/ LoopBegin
  \/ LoopDeleteCurrentElement
  \/ LoopGotoNextElement
  \/ LoopEnd

RestIdle ==
  /\ ClockIdle /\ SleepIdle /\ PollIdle /\ SendIdle /\ MutexIdle /\ CreateIdle
  /\ HashIdle /\ LoopIdle

(***************************************************************************)
(* The reference framing: a byte stream parsed as concatenated             *)
(* '2-byte big-endian length || length bytes' frames; an incomplete last   *)
(* frame yields nothing.                                                   *)
(***************************************************************************)
RECURSIVE ParseFrames(_)
ParseFrames(s) ==
  IF Len(s) < 2 THEN <<>>
  ELSE LET l == s[1] * 256 + s[2]
       IN IF Len(s) < 2 + l THEN <<>>
          ELSE <<SubSeq(s, 3, 2 + l)>> \o ParseFrames(DropN(s, 2 + l))

\* some frame of the stream announces more than maxPack bytes
RECURSIVE HasOversized(_, _)
HasOversized(s, maxPack) ==
  IF Len(s) < 2 THEN FALSE
  ELSE LET l == s[1] * 256 + s[2]
       IN IF l > maxPack THEN TRUE
          ELSE IF Len(s) < 2 + l THEN FALSE
          ELSE HasOversized(DropN(s, 2 + l), maxPack)

Streams == UNION {[1..n -> ByteVals] : n \in 0..MaxStream}

ReasmInit ==
  /\ orig \in Streams
  /\ stream = orig
  /\ sockbuf = <<>>
  /\ peerClosed = FALSE
  /\ sdata = SocketDataNew
  /\ live = TRUE
  /\ rpc = "idle"
  /\ complete = FALSE
  /\ rstatus = "ok"
  /\ emitted = <<>>
  /\ consumed = <<>>
  /\ splitSeen = FALSE
  /\ m_maxPackSize \in 1..MaxPackSize
  /\ lastReset = FALSE

\* TCP delivers the next k bytes of the stream to the socket
Arrive ==
  /\ UNCHANGED NotReasm
  /\ Len(stream) > 0
  /\ \E k \in 1..Len(stream) :
       /\ sockbuf' = sockbuf \o TakeN(stream, k)
       /\ stream' = DropN(stream, k)
  /\ UNCHANGED <<orig, peerClosed, sdata, live, rpc, complete, rstatus, emitted,
                 consumed, splitSeen, m_maxPackSize, lastReset>>

\* the peer shuts down after its last byte
PeerClose ==
  /\ UNCHANGED NotReasm
  /\ Len(stream) = 0
  /\ ~peerClosed
  /\ peerClosed' = TRUE
  /\ UNCHANGED <<orig, stream, sockbuf, sdata, live, rpc, complete, rstatus,
                 emitted, consumed, splitSeen, m_maxPackSize, lastReset>>

\* PollSocket: the socket is readable; ProcessAvailableBytes is called with the
\* bytes available (readable with no bytes is the peer's shutdown)
CallProcessAvailableBytes ==
  /\ UNCHANGED NotReasm
  /\ live
  /\ rpc = "idle"
  /\ Len(sockbuf) > 0 \/ peerClosed
  /\ \E r1 \in 1..2, r2 \in 1..(MaxPackSize + 1) :
       LET res == IF Len(sockbuf) = 0
                  THEN [sd |-> sdata, buf |-> sockbuf, complete |-> FALSE,
                        status |-> "ConnectionClosed"]
                  ELSE ProcessAvailableBytes(sdata, sockbuf, Len(sockbuf), r1, r2,
                                             m_maxPackSize)
       IN /\ sdata' = res.sd
          /\ sockbuf' = res.buf
          /\ complete' = res.complete
          /\ rstatus' = res.status
          /\ consumed' = consumed \o TakeN(sockbuf, Len(sockbuf) - Len(res.buf))
          /\ splitSeen' = (splitSeen \/ (res.status = "ok" /\ ~res.complete))
  /\ rpc' = "called"
  /\ lastReset' = FALSE
  /\ UNCHANGED <<orig, stream, peerClosed, live, emitted, m_maxPackSize>>

\* PollSocket after the call: an error removes the destination; a complete
\* frame is harvested, enqueued, and the reassembler Reset
AfterProcessAvailableBytes ==
  /\ UNCHANGED NotReasm
  /\ rpc = "called"
  /\ rpc' = "idle"
  /\ IF rstatus # "ok"
     THEN /\ live' = FALSE
          /\ UNCHANGED <<sdata, emitted, lastReset>>
     ELSE IF complete
     THEN LET x == ExtractDataBuffer(sdata)
          IN /\ emitted' = Append(emitted, x.pTmp.mem)
             /\ sdata' = Reset(x.sd)
             /\ lastReset' = TRUE
             /\ UNCHANGED live
     ELSE UNCHANGED <<sdata, emitted, live, lastReset>>
  /\ complete' = FALSE
  /\ UNCHANGED <<orig, stream, sockbuf, peerClosed, rstatus, consumed, splitSeen,
                 m_maxPackSize>>

ReasmNext ==
  \/ Arrive
  \/ PeerClose
  \/ CallProcessAvailableBytes
  \/ AfterProcessAvailableBytes

\* the reassembler variables while another component is specified
ReasmIdle ==
  /\ orig = <<>>
  /\ stream = <<>>
  /\ sockbuf = <<>>
  /\ peerClosed = FALSE
  /\ sdata = SocketDataNew
  /\ live = FALSE
  /\ rpc = "idle"
  /\ complete = FALSE
  /\ rstatus = "ok"
  /\ emitted = <<>>
  /\ consumed = <<>>
  /\ splitSeen = FALSE
  /\ m_maxPackSize = MaxPackSize
  /\ lastReset = FALSE

InitReasm == ReasmInit /\ AbortIdle /\ WaitIdle /\ NtpIdle /\ RestIdle

SpecReasm == InitReasm /\ [][ReasmNext]_vars

(***************************************************************************)
(* C1: whatever the segmentation of the stream into arrivals and reads,    *)
(* as long as no frame read so far announces more than maxPackSize bytes   *)
(* the reassembler reports no oversized frame, the bytes are consumed in   *)
(* stream order, and the payloads emitted are exactly the frames of the    *)
(* bytes consumed, parsed as '2-byte big-endian length || payload', empty  *)
(* payloads included (a frame just completed is emitted by the step that   *)
(* follows the call).                                                      *)
(***************************************************************************)
FramingCorrect ==
  ~HasOversized(consumed, m_maxPackSize) =>
     /\ rstatus # "OversizedFrame"
     /\ consumed \o sockbuf \o stream = orig
     /\ rpc = "idle" => emitted = ParseFrames(consumed)
     /\ rpc = "called" =>
          ParseFrames(consumed) =
            IF complete THEN Append(emitted, sdata.m_pDataBuffer.mem) ELSE emitted

\* an empty frame and a one-byte frame were emitted, with a call that ended
\* in the middle of a frame in between
FramingWitness ==
  /\ rpc = "idle"
  /\ splitSeen
  /\ emitted = << <<>>, <<1>> >>
  /\ ~HasOversized(consumed, m_maxPackSize)

InitAbort == AbortSeqInit /\ ReasmIdle /\ WaitIdle /\ NtpIdle /\ RestIdle

SpecAbort == InitAbort /\ [][AbortSeqNext]_vars

InitAbortConc == AbortConcInit /\ ReasmIdle /\ WaitIdle /\ NtpIdle /\ RestIdle

InitWait == WaitInit /\ ReasmIdle /\ NtpIdle /\ RestIdle

SpecWait == InitWait /\ [][WaitNext]_vars

\* a MultiWait with a readable descriptor returns; nothing says that a
\* delay ever elapses or that data ever arrives
WaitFairness ==
  WF_vars(\E t \in AThreads : MultiWaitReady(t))

SpecWaitFair == SpecWait /\ WaitFairness

SpecAbortConc == InitAbortConc /\ [][AbortConcNext]_vars

(***************************************************************************)
(* C5: when SendAbortSignal returns on an initialized channel it returns 0 *)
(* and at least one unread byte is buffered on the channel, whether this   *)
(* call wrote it or the write failed because the channel was full.         *)
(***************************************************************************)
SignalLeavesByte ==
  (last.op = "SendAbortSignal" /\ last.ret # "pending" /\ last.pre.m_init) =>
     /\ last.ret = RetOk
     /\ pipe >= 1

\* a SendAbortSignal whose write failed has returned 0, bytes being in flight
SignalWitness ==
  /\ last.op = "SendAbortSignal"
  /\ last.fail = "write"
  /\ last.ret = RetOk
  /\ pipe = PipeCap

(***************************************************************************)
(* C6: a ReadSignallingByte that ClearAbortSignal issues after a positive  *)
(* select always finds a byte: no thread is in the read with the channel   *)
(* empty.                                                                  *)
(***************************************************************************)
ClearNeverBlocks ==
  \A t \in AThreads : apc[t] = "read" => pipe > 0

DestroyContract ==
  /\ ~badClose
  /\ (last.op = "Destroy" /\ last.pre.m_init) =>
       /\ last.closed = <<last.pre.m_descriptors[1], last.pre.m_descriptors[2]>>
       /\ last.pre.m_descriptors[1] # last.pre.m_descriptors[2]
       /\ SeqSet(last.closed) \subseteq last.preOpen
       /\ openFds = last.preOpen \ SeqSet(last.closed)
       /\ chan = [m_init |-> FALSE, m_descriptors |-> <<RTPSOCKERR, RTPSOCKERR>>]
  /\ (last.op = "Destroy" /\ ~last.pre.m_init) =>
       /\ last.closed = <<>>
       /\ chan = last.pre
       /\ openFds = last.preOpen
       /\ pipe = last.prePipe
  /\ (last.op = "Init" /\ prev.op = "Destroy" /\ last.fail = "none") =>
       /\ last.ret = RetOk
       /\ chan.m_init
       /\ SeqSet(chan.m_descriptors) \subseteq openFds

\* a second Destroy right after the Destroy of an initialized channel
DestroyWitness ==
  /\ prev.op = "Destroy"
  /\ prev.pre.m_init
  /\ last.op = "Destroy"
  /\ ~last.pre.m_init

(***************************************************************************)
(* C9: when a step of Init fails, Init returns a creation error (neither   *)
(* success nor 'already initialized'), every handle it opened has been     *)
(* closed, once, the handle table is as before and the channel is not      *)
(* initialized.                                                            *)
(***************************************************************************)
InitRollsBack ==
  (last.op = "Init" /\ last.fail # "none") =>
     /\ last.ret \in {ERR_CANTCREATEPIPE, ERR_CANTCREATEABORTDESCRIPTORS}
     /\ last.ret \notin {RetOk, ERR_ALREADYINIT}
     /\ SeqSet(last.closed) = SeqSet(last.opened)
     /\ Cardinality(SeqSet(last.closed)) = Len(last.closed)
     /\ openFds = last.preOpen
     /\ ~chan.m_init
     /\ ~badClose

\* accept failed after the listener and the connecting socket were opened
InitRollbackWitness ==
  /\ variant = "winsock"
  /\ last.op = "Init"
  /\ last.fail = "accept"
  /\ Len(last.opened) = 2
  /\ Len(last.closed) = 2

\* the payloads the inbound queue holds for socket s, in order
QueuedFrom(s) ==
  LET q == SelectSeq(m_rawpacketlist, LAMBDA e : e[1] = s)
  IN [i \in 1..Len(q) |-> q[i][2]]

(***************************************************************************)
(* C3: when AbortWait is called while a thread is blocked in the           *)
(* multi-wait, that wait returns without its delay having to elapse, and   *)
(* when the call returns every frame completed on a socket that was ready  *)
(* in that wake cycle is in the inbound queue: nothing a ready socket held *)
(* is left unread, and the queue holds exactly the frames of the bytes     *)
(* read, abort or no abort.                                                *)
(***************************************************************************)
InterruptedWait == abortedWait /\ \E t \in AThreads : wpc[t] = "multiwait"

AbortKeepsData ==
  /\ \A s \in DSocks : QueuedFrom(s) = ParseFrames(wconsumed[s])
  /\ lastDone.valid => lastDone.left = {}

AbortWakesAndKeepsData ==
  /\ InterruptedWait ~> ~InterruptedWait
  /\ []AbortKeepsData

\* a wait that AbortWait interrupted has returned: its abort bit was set, the
\* channel is drained, and a frame of a socket ready in the same cycle is
\* in the queue
AbortWakeWitness ==
  /\ lastDone.valid
  /\ lastDone.aborted
  /\ lastDone.abort
  /\ lastDone.frames > 0
  /\ pipe = 0
  /\ Len(m_rawpacketlist) > 0

(***************************************************************************)
(* C4: AbortWait signals only while waitingForData is set, and so whenever *)
(* no thread is inside Poll or WaitForIncomingData, waitingForData is      *)
(* false and the abort channel holds no byte left over for a later wait.   *)
(***************************************************************************)
NoStaleAbort ==
  (\A t \in AThreads : wpc[t] = "idle") => (~m_waitingForData /\ pipe = 0)

InitNtp == NtpInit /\ ReasmIdle /\ AbortIdle /\ WaitIdle /\ RestIdle

SpecNtp == InitNtp /\ [][NtpNext]_vars

\* two times differ by at most one microsecond, read in whole microseconds
WithinOneMicrosecond(sa, ua, sb, ub) ==
  \/ sa = sb /\ ua - ub <= 1 /\ ub - ua <= 1
  \/ sa = Add32(sb, <<0, 1>>) /\ ua = 0 /\ ub = 999999
  \/ sb = Add32(sa, <<0, 1>>) /\ ub = 0 /\ ua = 999999

(***************************************************************************)
(* C10: a time of whole microseconds in [0, 2^31] seconds, converted to    *)
(* NTP form by GetNTPTime and back by RTPTime(RTPNTPTime), comes back      *)
(* within one microsecond of itself.                                       *)
(***************************************************************************)
NTPRoundTrip ==
  ntpc = "back" =>
    WithinOneMicrosecond(tin.sec, tin.usec, GetSeconds(tback), GetMicroSeconds(tback))

\* the NTP timestamps decoded: most significant words below the offset, and
\* from 2^30 seconds past it on; least significant words up to 30 microseconds
NtpDecodeInputs ==
  [msw : {<<0, 0>>, <<33706, 32383>>, <<50090, 32384>>, <<60000, 0>>, <<65535, 65535>>},
   lsw : {0, 1, 2147, 2148, 4294, 4295, 6442, 6443, 8589, 8590, 42949, 42950,
          128849}]

NtpDecodeInit ==
  /\ ntpc = "ntp"
  /\ tin = [sec |-> <<0, 0>>, usec |-> 0]
  /\ m_t = ZeroTime
  /\ ntptime \in NtpDecodeInputs
  /\ tback = ZeroTime

InitNtpDecode == NtpDecodeInit /\ ReasmIdle /\ AbortIdle /\ WaitIdle /\ RestIdle

SpecNtpDecode == InitNtpDecode /\ [][CallRTPTimeOfNTP]_vars

\* lsw * 2^-32 seconds rounded to the microsecond: lsw * 15625 / 2^26 to
\* the nearest whole number
RoundedMicroseconds(lsw) == (lsw * 15625 + Pow2(25)) \div Pow2(26)

(***************************************************************************)
(* C11: the time made from an NTP timestamp (msw, lsw) is 0 seconds and 0  *)
(* microseconds when msw < 2208988800, and otherwise msw - 2208988800      *)
(* seconds plus lsw * 2^-32 seconds rounded to the microsecond.            *)
(***************************************************************************)
NTPDecodesRounded ==
  ntpc = "back" =>
    IF Less32(ntptime.msw, RTP_NTPTIMEOFFSET)
    THEN GetSeconds(tback) = <<0, 0>> /\ GetMicroSeconds(tback) = 0
    ELSE /\ GetSeconds(tback) = Sub32(ntptime.msw, RTP_NTPTIMEOFFSET)
         /\ GetMicroSeconds(tback) = RoundedMicroseconds(ntptime.lsw)

InitClock ==
  /\ ClockStart("single")
  /\ ReasmIdle /\ AbortIdle /\ WaitIdle /\ NtpIdle
  /\ SleepIdle /\ PollIdle /\ SendIdle /\ MutexIdle /\ CreateIdle /\ HashIdle /\ LoopIdle

SpecClock == InitClock /\ [][ClockNext]_vars

(***************************************************************************)
(* C12: in one thread, whatever the realtime clock does after the first    *)
(* call and with a monotonic clock that never goes back, the first         *)
(* CurrentTime call returns the realtime sample, every later call returns  *)
(* the monotonic reading plus the offset fixed at the first call, the      *)
(* realtime clock is read once only, and no call returns less than the     *)
(* call before it.                                                         *)
(***************************************************************************)
ClockTracksMonotonic ==
  /\ realReads <= 1
  /\ offsetSets <= 1
  /\ cfirst # NoTime => cret = cfirst /\ cret = tSys[0]
  /\ (cret # NoTime /\ cfirst = NoTime) => cret = RoundToDouble(tMono[0] + s_startOffet)
  /\ cprev # NoTime => cret >= cprev

InitClockConc ==
  /\ ClockStart("threads")
  /\ ReasmIdle /\ AbortIdle /\ WaitIdle /\ NtpIdle
  /\ SleepIdle /\ PollIdle /\ SendIdle /\ MutexIdle /\ CreateIdle /\ HashIdle /\ LoopIdle

SpecClockConc == InitClockConc /\ [][ClockNext]_vars

InitSleep ==
  /\ SleepIdle /\ ClockIdle /\ ReasmIdle /\ AbortIdle /\ WaitIdle /\ NtpIdle
  /\ PollIdle /\ SendIdle /\ MutexIdle /\ CreateIdle /\ HashIdle /\ LoopIdle

SpecSleep == InitSleep /\ [][SleepNext]_vars

SpecSleepFair == SpecSleep /\ WF_vars(SleepNext)

(***************************************************************************)
(* C14: Wait(d) returns without sleeping when d <= 0; for d > 0 every      *)
(* sleep after an interrupted one is issued with the remaining time, and   *)
(* Wait returns only once the total time slept is at least d.              *)
(***************************************************************************)
WaitSleepsWholeDelay ==
  /\ (slpc = "done" /\ NonPositive(delay)) => nsleeps = 0
  /\ (slpc = "sleep" /\ nintr > 0) => req = rem
  /\ (slpc = "done" /\ ~NonPositive(delay)) => SleptAtLeast(slept, delay)

\* the termination part of C14: a call of Wait returns, whatever the signals
WaitTerminates == (slpc = "check") ~> (slpc = "done")

\* the parts of C14 that do not depend on the conversion
WaitReturnsAndReissues ==
  /\ (slpc = "done" /\ NonPositive(delay)) => nsleeps = 0
  /\ (slpc = "sleep" /\ nintr > 0) => req = rem
  /\ (slpc = "done" /\ ~NonPositive(delay)) =>
       SpecLeq(<<WaitSeconds(delay), WaitNanoseconds(delay)>>, slept)

InitPoll ==
  /\ PollInit
  /\ ReasmIdle /\ AbortIdle /\ NtpIdle /\ ClockIdle /\ SleepIdle
  /\ SendIdle /\ MutexIdle /\ CreateIdle /\ HashIdle /\ LoopIdle

SpecPoll == InitPoll /\ [][PollNext]_vars

\* the sockets OnReceiveError was called for in the last Poll
HookSocks == {phooks[i][1] : i \in 1..Len(phooks)}

\* what is to happen to ready socket s, from the bytes that had arrived on
\* it: an announced length over the maximum, or the end of a closed stream
ReceiveFails(s) ==
  HasOversized(plast.arrived[s], m_maxPackSize) \/ s \in plast.closed

(***************************************************************************)
(* C15: when a destination's reassembler reports ConnectionClosed or       *)
(* OversizedFrame during Poll, OnReceiveError is called for that socket,   *)
(* the destination leaves the destination set, Poll does not return the    *)
(* error, and the frames of the other ready destinations are processed     *)
(* and enqueued in that same call.                                         *)
(***************************************************************************)
ReceiveErrorsResolved ==
  plast.valid =>
    /\ pret \in {RetOk, NoRet}
    /\ HookSocks \subseteq plast.ready
    /\ \A s \in plast.ready :
         IF ReceiveFails(s)
         THEN /\ s \in HookSocks
              /\ s \notin DOMAIN m_destSockets
              /\ <<s, IF HasOversized(plast.arrived[s], m_maxPackSize)
                      THEN "OversizedFrame" ELSE "ConnectionClosed">>
                   \in SeqSet(phooks)
         ELSE /\ s \notin HookSocks
              /\ s \in DOMAIN m_destSockets
              /\ wconsumed[s] = plast.arrived[s]
              /\ QueuedFrom(s) = ParseFrames(plast.arrived[s])

\* one Poll in which the peer of socket 1 had closed and socket 2 announced
\* too long a frame, or socket 1 failed and socket 2's frame was enqueued
ReceiveErrorWitness ==
  /\ plast.valid
  /\ pret = RetOk
  /\ plast.ready = {1, 2}
  /\ phooks = <<<<1, "ConnectionClosed">>>>
  /\ QueuedFrom(2) = <<<<1>>>>
  /\ DOMAIN m_destSockets = {2}

ReceiveOversizedWitness ==
  /\ plast.valid
  /\ plast.ready = {1, 2}
  /\ phooks = <<<<1, "OversizedFrame">>>>
  /\ QueuedFrom(2) = <<<<1>>>>

InitSend ==
  /\ SendInit
  /\ ReasmIdle /\ AbortIdle /\ NtpIdle /\ ClockIdle /\ SleepIdle /\ PollIdle
  /\ MutexIdle /\ CreateIdle /\ HashIdle /\ LoopIdle

SpecSend == InitSend /\ [][SendNext]_vars

\* the destinations whose writes all succeed in this call
SendSucceeds == {s \in DOMAIN m_destSockets : sndfail[s] = "none"}

(***************************************************************************)
(* C16: Send attempts the length prefix and payload on every destination   *)
(* even after an earlier one failed, calls OnSendError once for each       *)
(* failing socket, and returns success if some destination succeeded and   *)
(* SendError otherwise, an empty destination set included; a length over   *)
(* 65535 or over maxPackSize is rejected with nothing written anywhere.    *)
(***************************************************************************)
SendReachesEveryDestination ==
  sndpc = "done" =>
    IF sndlen > MaxFrameLen \/ sndlen > m_maxPackSize
    THEN /\ sndret \in {ERR_TOOLONG, ERR_OVERSIZED}
         /\ sndlen > MaxFrameLen => sndret = ERR_TOOLONG
         /\ \A s \in DOMAIN m_destSockets : sndwire[s] = <<>>
         /\ sndhooks = <<>>
    ELSE /\ \A s \in SendSucceeds :
              /\ ParseFrames(sndwire[s]) = <<snddata>>
              /\ Len(sndwire[s]) = 2 + sndlen
         /\ \A s \in DOMAIN m_destSockets :
              Cardinality({i \in 1..Len(sndhooks) : sndhooks[i] = s})
                = IF s \in SendSucceeds THEN 0 ELSE 1
         /\ sndret = IF SendSucceeds # {} THEN RetOk ELSE ERR_SENDERROR

\* the first destination failed, the second took the frame, Send succeeded
SendWitness ==
  /\ sndpc = "done"
  /\ DOMAIN m_destSockets = {1, 2}
  /\ sndfail[1] = "payload"
  /\ sndhooks = <<1>>
  /\ sndwire[2] = <<0, 1, 1>>
  /\ sndret = RetOk

\* no destination: SendError
SendNobodyWitness ==
  /\ sndpc = "done"
  /\ DOMAIN m_destSockets = {}
  /\ sndlen = 1
  /\ sndret = ERR_SENDERROR

\* too long a frame: rejected
SendRejectWitness ==
  /\ sndpc = "done"
  /\ sndlen = MaxFrameLen + 1
  /\ sndret = ERR_TOOLONG

InitMutex ==
  /\ MutexInit
  /\ ReasmIdle /\ AbortIdle /\ NtpIdle /\ ClockIdle /\ SleepIdle /\ PollIdle
  /\ SendIdle /\ CreateIdle /\ HashIdle /\ LoopIdle

SpecMutex == InitMutex /\ [][MutexNext]_vars

\* a thread that can take a step takes it, and a mutex that keeps coming
\* free is obtained; nothing makes a pending MultiWait return
MutexFairness == \A t \in AThreads : SF_vars(MutexProgress(t))

SpecMutexFair == SpecMutex /\ MutexFairness

\* thread t is inside AbortWait, AddDestination or DeleteDestination
InShortCall(t) == mop[t] \in {"abort", "add", "del"} /\ mpc[t] # "idle"

OneWaiterNoMainMutex ==
  /\ Cardinality(Waiters) <= 1
  /\ \A t \in Waiters : m_mainMutex # t /\ waitMutex = t

(***************************************************************************)
(* C17: in every interleaving of threads calling Poll/WaitForIncomingData, *)
(* AbortWait, AddDestination and DeleteDestination, at most one thread is  *)
(* blocked in the multi-wait, that thread does not hold the main mutex     *)
(* while blocked, and every AbortWait, AddDestination and                  *)
(* DeleteDestination of another thread completes even if the pending wait *)
(* never returns.                                                          *)
(***************************************************************************)
WaitLeavesOthersRunning ==
  /\ []OneWaiterNoMainMutex
  /\ \A t \in AThreads : InShortCall(t) ~> (mpc[t] = "idle")

\* thread 1 is blocked in MultiWait and, since it blocked, thread 2 has
\* completed an AbortWait, an AddDestination and a DeleteDestination, and
\* is waiting for m_waitMutex itself
MutexWitness ==
  /\ mpc[1] = "multiwait"
  /\ mdone = {"abort", "add", "del"}
  /\ mpc[2] = "lockwait"

InitCreate ==
  /\ CreateIdle
  /\ ReasmIdle /\ AbortIdle /\ WaitIdle /\ NtpIdle /\ ClockIdle /\ SleepIdle
  /\ PollIdle /\ SendIdle /\ MutexIdle /\ HashIdle /\ LoopIdle

SpecCreate == InitCreate /\ [][CreateNext]_vars

\* a channel is usable: initialized, both ends open
Usable(ch, fds) == ch.m_init /\ SeqSet(ch.m_descriptors) \subseteq fds

(***************************************************************************)
(* C18: over every sequence of Create and Destroy, a channel the caller    *)
(* gave to Create is never initialized or destroyed by the transmitter     *)
(* and stays initialized and usable after Destroy; with none given, the    *)
(* owned channel is initialized by Create and destroyed by Destroy; and a  *)
(* second Destroy changes nothing.                                         *)
(***************************************************************************)
AbortChannelOwnership ==
  /\ ~extTouched
  /\ extDesc = ExtChannel
  /\ Usable(extDesc, trFds)
  /\ m_pAbortDesc = "owned" => Usable(m_abortDesc, trFds)
  /\ m_pAbortDesc = "owned" =>
       SeqSet(m_abortDesc.m_descriptors) \cap SeqSet(extDesc.m_descriptors) = {}
  /\ m_created = (m_pAbortDesc # "null")
  /\ m_pAbortDesc # "owned" =>
       m_abortDesc = AbortDescNew
  /\ (trLast.op = "Create" /\ trLast.ret = RetOk) =>
       m_pAbortDesc = IF trLast.params = "external" THEN "external" ELSE "owned"
  /\ (trLast.op = "Create" /\ trLast.ret # RetOk) =>
       /\ m_created = trLast.created
       /\ m_abortDesc = trLast.abortDesc
  /\ (trLast.op = "Destroy" /\ ~trLast.created) =>
       /\ ~m_created
       /\ m_abortDesc = trLast.abortDesc

\* Destroy has returned on a transmitter created with the caller's channel,
\* which holds a signal sent before and is still usable
ExternalChannelWitness ==
  /\ trLast.op = "Destroy"
  /\ trLast.created
  /\ trLast.abortDesc = AbortDescNew
  /\ extPipe = 1
  /\ Usable(extDesc, trFds)

\* Destroy has destroyed an owned channel
OwnedChannelWitness ==
  /\ trLast.op = "Destroy"
  /\ trLast.created
  /\ trLast.abortDesc.m_init
  /\ ~m_abortDesc.m_init
  /\ ~(SeqSet(trLast.abortDesc.m_descriptors) \subseteq trFds)

\* a second Destroy
SecondDestroyWitness ==
  /\ trLast.op = "Destroy"
  /\ ~trLast.created
  /\ trLast.fds = trFds

InitHash ==
  /\ HashNew
  /\ ReasmIdle /\ AbortIdle /\ WaitIdle /\ NtpIdle /\ ClockIdle /\ SleepIdle
  /\ PollIdle /\ SendIdle /\ MutexIdle /\ CreateIdle /\ LoopIdle

SpecHash == InitHash /\ [][HashNext]_vars

RECURSIVE Reverse(_)
Reverse(q) == IF Len(q) = 0 THEN <<>> ELSE Append(Reverse(Tail(q)), Head(q))

\* lasthashelem and on through listprev
RECURSIVE ListBackFrom(_, _, _)
ListBackFrom(hp, p, fuel) ==
  IF p = Null \/ fuel = 0 THEN <<>>
  ELSE <<p>> \o ListBackFrom(hp, hp[p].listprev, fuel - 1)

\* table[i] and on through hashnext
RECURSIVE BucketFrom(_, _, _)
BucketFrom(hp, p, fuel) ==
  IF p = Null \/ fuel = 0 THEN <<>>
  ELSE <<p>> \o BucketFrom(hp, hp[p].hashnext, fuel - 1)

KeysOf(ps) == [i \in 1..Len(ps) |-> heap[ps[i]].key]

\* GotoFirstElement, then GetCurrentKey and GotoNextElement while
\* HasCurrentElement
ForwardKeys == KeysOf(ListFrom(heap, firsthashelem, MaxNodes + 1))

\* GotoLastElement, then GetCurrentKey and GotoPreviousElement while
\* HasCurrentElement
BackwardKeys == KeysOf(ListBackFrom(heap, lasthashelem, MaxNodes + 1))

(***************************************************************************)
(* C19: after any sequence of AddElement, DeleteElement,                   *)
(* DeleteCurrentElement and Clear, the GotoFirstElement / GotoNextElement  *)
(* traversal visits every element in the table exactly once in the order   *)
(* of insertion, whatever the buckets of the keys, and the GotoLastElement *)
(* / GotoPreviousElement traversal visits them in the reverse order.       *)
(***************************************************************************)
TraversalInInsertionOrder ==
  /\ ForwardKeys = contents
  /\ BackwardKeys = Reverse(contents)

\* C19 for the sequences in which DeleteCurrentElement has always had an
\* element of the table, or none, to delete
TraversalWhileCurrentValid == ~badFree => TraversalInInsertionOrder

ListNodes == SeqSet(ListFrom(heap, firsthashelem, MaxNodes + 1))
BucketNodes(i) == SeqSet(BucketFrom(heap, table[i], MaxNodes + 1))

LinksInverse ==
  \A n \in ListNodes :
    /\ (heap[n].listprev = Null) = (n = firsthashelem)
    /\ (heap[n].listnext = Null) = (n = lasthashelem)
    /\ heap[n].listprev # Null => heap[heap[n].listprev].listnext = n
    /\ heap[n].listnext # Null => heap[heap[n].listnext].listprev = n
    /\ (heap[n].hashprev = Null) = (n = table[heap[n].hashindex])
    /\ heap[n].hashprev # Null => heap[heap[n].hashprev].hashnext = n
    /\ heap[n].hashnext # Null => heap[heap[n].hashnext].hashprev = n

(***************************************************************************)
(* C20: in every reachable state the elements reachable from the bucket    *)
(* heads through hashnext are those reachable from firsthashelem through   *)
(* listnext, each element is in the bucket of its own hash index, no two   *)
(* elements have the same key, prev and next links are mutually inverse    *)
(* in both chains, firsthashelem and lasthashelem are both null exactly    *)
(* when the table is empty, and AddElement of a key already present        *)
(* returns KEYALREADYEXISTS and changes nothing.                           *)
(***************************************************************************)
TableWellFormed ==
  /\ UNION {BucketNodes(i) : i \in Buckets} = ListNodes
  /\ \A i \in Buckets : \A n \in BucketNodes(i) :
       heap[n].hashindex = i /\ GetIndex(heap[n].key) = i
  /\ \A a \in ListNodes : \A b \in ListNodes :
       heap[a].key = heap[b].key => a = b
  /\ LinksInverse
  /\ (firsthashelem = Null) = (lasthashelem = Null)
  /\ (firsthashelem = Null) = (contents = <<>>)
  /\ (firsthashelem = Null) = (\A i \in Buckets : table[i] = Null)
  /\ (hlast.op = "AddElement" /\ hlast.had) =>
       hlast.ret = ERR_KEYALREADYEXISTS /\ hlast.same

\* C20 for the states reached while DeleteCurrentElement has always had an
\* element of the table, or none, to delete
WellFormedWhileCurrentValid == ~badFree => TableWellFormed

InitHashLoop ==
  /\ HashNew
  /\ ReasmIdle /\ AbortIdle /\ WaitIdle /\ NtpIdle /\ ClockIdle /\ SleepIdle
  /\ PollIdle /\ SendIdle /\ MutexIdle /\ CreateIdle /\ LoopIdle

SpecHashLoop == InitHashLoop /\ [][HashLoopNext]_vars

\* the step is a DeleteCurrentElement call
IsDeleteCurrentElement ==
  /\ hlast'.op = "DeleteCurrentElement"
  /\ hashVars' # hashVars

\* the place of key k in the traversal
PlaceOf(ks, k) == CHOOSE i \in 1..Len(ks) : ks[i] = k

\* the cursor is on the element whose key follows k in ks, or on none if k
\* is the last
CursorFollows(ks, k) ==
  IF PlaceOf(ks, k) = Len(ks)
  THEN curhashelem' = Null
  ELSE /\ curhashelem' \in allocated'
       /\ heap'[curhashelem'].key = ks[PlaceOf(ks, k) + 1]

\* DeleteCurrentElement with a current element: that element and no other
\* leaves both traversals, the cursor moves to its successor
DeleteCurrentRemovesCurrent ==
  (IsDeleteCurrentElement /\ curhashelem \in allocated) =>
     /\ hlast'.ret = RetOk
     /\ heap[curhashelem].key \in SeqSet(ForwardKeys)
     /\ ForwardKeys' = Remove(ForwardKeys, heap[curhashelem].key)
     /\ Len(ForwardKeys') = Len(ForwardKeys) - 1
     /\ BackwardKeys' = Reverse(ForwardKeys')
     /\ allocated' = allocated \ {curhashelem}
     /\ ~badFree'
     /\ CursorFollows(ForwardKeys, heap[curhashelem].key)

\* DeleteCurrentElement with no current element
DeleteCurrentWithoutCurrent ==
  (hlast'.op = "DeleteCurrentElement" /\ hlast' # hlast /\ curhashelem = Null) =>
     /\ hlast'.ret = ERR_NOCURRENTELEMENT
     /\ UNCHANGED <<table, firsthashelem, lasthashelem, curhashelem, heap,
                    allocated, badFree>>

\* when the loop finds no current element it has visited the elements the
\* table held at its start, each once and in their order
LoopVisitsAll ==
  /\ (lpc = "loop" /\ curhashelem = Null) => visited = atstart
  /\ lpc = "loop" => ~badFree

DeleteWithoutCurrentWitness ==
  /\ hlast.op = "DeleteCurrentElement"
  /\ hlast.ret = ERR_NOCURRENTELEMENT
  /\ Len(contents) = 2

\* bool HasCurrentElement() { return (curhashelem == 0)?false:true; }
HasCurrentElement == curhashelem # Null

(***************************************************************************)
(* C22: after any sequence of operations on a table, starting from its     *)
(* construction, the cursor is null or refers to an element that is in     *)
(* the table: HasCurrentElement is never true for a deleted element, in    *)
(* particular after Clear and after a DeleteElement or GotoElement for an  *)
(* absent key.                                                             *)
(***************************************************************************)
CursorOnElementOrNull == HasCurrentElement => curhashelem \in allocated

\* C22 after a DeleteElement or GotoElement that did not find its key
CursorNullAfterKeyNotFound ==
  (hlast.op \in {"DeleteElement", "GotoElement"} /\ hlast.ret = ERR_KEYNOTFOUND) =>
     ~HasCurrentElement

\* C22 after a Clear
CursorNullAfterClear == hlast.op = "Clear" => ~HasCurrentElement

InitAbortLife == AbortSeqInit /\ ReasmIdle /\ WaitIdle /\ NtpIdle /\ RestIdle

SpecAbortLife == InitAbortLife /\ [][AbortLifeNext]_vars

\* the channel, the handles of the process and the bytes buffered are as
\* they were when the last operation was called
LastChangedNothing ==
  /\ chan = last.pre
  /\ openFds = last.preOpen
  /\ pipe = last.prePipe
  /\ last.opened = <<>>
  /\ last.closed = <<>>
  /\ last.reads = 0

\* SendAbortSignal, ReadSignallingByte or ClearAbortSignal on a channel
\* that is not initialized
NotInitRefused ==
  (/\ last.op \in {"SendAbortSignal", "ReadSignallingByte", "ClearAbortSignal"}
   /\ ~last.pre.m_init) =>
     /\ last.ret = ERR_NOTINIT
     /\ LastChangedNothing
     /\ \A t \in AThreads : apc[t] = "idle"

\* Init on a channel that is initialized
SecondInitRefused ==
  (last.op = "Init" /\ last.pre.m_init) =>
     /\ last.ret = ERR_ALREADYINIT
     /\ LastChangedNothing
     /\ chan.m_init
     /\ SeqSet(chan.m_descriptors) \subseteq openFds
     /\ ~badClose

(***************************************************************************)
(* C23: SendAbortSignal, ReadSignallingByte and ClearAbortSignal on a      *)
(* channel that is not initialized return NOTINIT and perform no read,     *)
(* write or select; Init on an initialized channel returns ALREADYINIT,    *)
(* creates no descriptors and leaves the existing pair open and unchanged. *)
(***************************************************************************)
WrongStateCallsRefused == NotInitRefused /\ SecondInitRefused

\* a second Init on a channel that holds a signal
SecondInitWitness ==
  /\ last.op = "Init"
  /\ last.ret = ERR_ALREADYINIT
  /\ last.pre.m_init
  /\ pipe > 0
  /\ prev.op = "SendAbortSignal"

\* ReadSignallingByte on a channel that was destroyed with a signal pending
ReadNotInitWitness ==
  /\ last.op = "ReadSignallingByte"
  /\ last.ret = ERR_NOTINIT
  /\ prev.op = "Destroy"
  /\ Len(prev.closed) = 2
  /\ prev.prePipe > 0

====
